---- MODULE Spec2Model ----
(***************************************************************************)
(* Verification model of the procedural avatar compositor                  *)
(* (app/icon_pipeline/advanced_icon_generator.py).                         *)
(*                                                                         *)
(* A canvas is modelled as its display list: the sequence of drawing       *)
(* calls issued on the ImageDraw handle, in the order they were issued,    *)
(* followed by the filters applied to the image.  Painting is back to      *)
(* front, so a later entry of the list is painted over an earlier one.     *)
(* Strings that the code inspects character by character (hex colours)     *)
(* are sequences of one-character strings.                                 *)
(***************************************************************************)
EXTENDS Integers, Sequences, FiniteSets, TLC

(***************************************************************************)
(* Bounds of the model.                                                    *)
(***************************************************************************)
\* number of states of the abstract pseudo-random generator
RngMod == 16

(***************************************************************************)
(* Program constants.                                                      *)
(***************************************************************************)
\* variant: the base size is missing from the list
ICON_SIZES_NoBase == <<48, 72, 96, 144, 192>>

ICON_SIZES == <<48, 72, 96, 144, 192, 512>>

\* size of the base render of an icon set (generate_icon_set, size=512)
BaseSize == 512

(***************************************************************************)
(* Integer helpers.                                                        *)
(***************************************************************************)
Abs(x) == IF x < 0 THEN -x ELSE x

Sign(x) == IF x < 0 THEN -1 ELSE IF x = 0 THEN 0 ELSE 1

Min(a, b) == IF a < b THEN a ELSE b

Max(a, b) == IF a > b THEN a ELSE b

Pow2(e) == IF e <= 0 THEN 1 ELSE 2 ^ e

\* 2^e modulo m, by repeated squaring
RECURSIVE Pow2Mod(_, _)
Pow2Mod(e, m) ==
    IF e <= 0 THEN 1 % m
    ELSE LET h == Pow2Mod(e \div 2, m)
         IN  (h * h * (IF e % 2 = 1 THEN 2 ELSE 1)) % m

\* floor(log2(a / b)) for positive integers a, b
RECURSIVE FloorLog2(_, _)
FloorLog2(a, b) ==
    IF a >= 2 * b THEN 1 + FloorLog2(a, 2 * b)
    ELSE IF a >= b THEN 0
    ELSE FloorLog2(2 * a, b) - 1

\* a = 2^e * b exactly (e may be negative)
IsPow2Ratio(a, b, e) == IF e >= 0 THEN a = Pow2(e) * b ELSE a * Pow2(-e) = b

(***************************************************************************)
(* IEEE-754 double arithmetic, as far as the palette needs it.             *)
(*                                                                         *)
(* Python evaluates c * 0.7, c1 * (1 - ratio) + c2 * ratio and int(...) in *)
(* binary64.  A decimal literal n/dn is the nearest double, a product or   *)
(* sum is the exact result rounded to nearest-even.  A double x close to   *)
(* the rational q/dn is represented exactly by                             *)
(*      [q, D, dn]   meaning   x = (q + D * 2^-60) / dn                    *)
(* so that every quantity stays a small integer.                           *)
(***************************************************************************)
\* the 52 fraction bits of a double and eight guard bits
FracBits == 52 + 8

\* the literal n/dn (a Python float constant such as 0.7 = Flt(7, 10))
Flt(n, dn) == [n |-> n, dn |-> dn]

\* exponent of the literal: 2^e <= n/dn < 2^(e+1)
FltExp(k) == FloorLog2(k.n, k.dn)

\* the literal is M * 2^-P with a 53-bit mantissa M = (n * 2^P - t) / dn
FltP(k) == 52 - FltExp(k)

FltT(k) ==
    LET r == (k.n * Pow2Mod(FltP(k), k.dn)) % k.dn
    IN  IF 2 * r <= k.dn THEN r ELSE r - k.dn

\* round-to-nearest-even correction for a value whose residue modulo twice
\* the grid g is r2: the amount to add to reach the rounded value
RoundDelta(r2, g) ==
    LET r == r2 % g
    IN  IF 2 * r < g THEN -r
        ELSE IF 2 * r > g THEN g - r
        ELSE IF r2 < g THEN -r ELSE g - r

\* the double c * k for an integer c and a literal k
FMul(c, k) ==
    IF c = 0 THEN [q |-> 0, D |-> 0, dn |-> k.dn]
    ELSE
    LET a   == Abs(c)
        P   == FltP(k)
        t   == FltT(k)
        E0  == FloorLog2(a * k.n, k.dn)
        E   == IF IsPow2Ratio(a * k.n, k.dn, E0) /\ t > 0 THEN E0 - 1 ELSE E0
        j   == E - FltExp(k)
        g   == Pow2(j)
        w   == Pow2Mod(P - j - 1, k.dn)
        r2  == ((2 * g * ((a * k.n * w) % k.dn) - a * t) % (2 * g * k.dn)) \div k.dn
        dlt == RoundDelta(r2, g)
        Da  == (k.dn * dlt - a * t) * Pow2(FracBits - P)
    IN  [q |-> c * k.n, D |-> Sign(c) * Da, dn |-> k.dn]

\* the double x + y (both over the same denominator)
FAdd(x, y) ==
    LET q == x.q + y.q
        D == x.D + y.D
    IN  IF q = 0 THEN [q |-> 0, D |-> D, dn |-> x.dn]
        ELSE
        LET s   == Sign(q)
            qa  == Abs(q)
            Da  == s * D
            E0  == FloorLog2(qa, x.dn)
            E   == IF IsPow2Ratio(qa, x.dn, E0) /\ Da < 0 THEN E0 - 1 ELSE E0
            Gu  == x.dn * Pow2(E + FracBits - 52)
            w   == Pow2Mod(51 - E, x.dn)
            r2  == (2 * Pow2(E + FracBits - 52) * ((qa * w) % x.dn) + Da) % (2 * Gu)
            dlt == RoundDelta(r2, Gu)
        IN  [q |-> q, D |-> s * (Da + dlt), dn |-> x.dn]

\* int(c / k) for an integer c >= 0 and a literal k >= 1.  The quotient of
\* c by the double k is rounded to nearest; it can fall below the integer
\* Q only when c / (n/dn) is exactly Q and the double k lies above n/dn by
\* u / (dn * 2^P): then the rounded quotient is below Q exactly when it is
\* more than half a spacing 2^(eb - 52) of the doubles under Q away from
\* Q, that is when n * 2^(eb + 1) < Q * u * 2^(2 + FltExp(k))
PyIntQuot(c, k) ==
    LET Q   == (c * k.dn) \div k.n
        u   == -FltT(k)
        eb1 == FloorLog2(2 * Q - 1, 2) + 1
    IN  IF c = 0 THEN 0
        ELSE IF (c * k.dn) % k.n # 0 \/ u <= 0 THEN Q
        ELSE IF k.n * Pow2(eb1) < Q * u * Pow2(2 + FltExp(k)) THEN Q - 1
        ELSE Q

\* int(x): truncation toward zero
PyInt(x) ==
    IF x.q = 0 THEN 0
    ELSE
    LET s  == Sign(x.q)
        qa == Abs(x.q)
        Da == s * x.D
        m  == IF qa % x.dn = 0 /\ Da < 0 THEN (qa \div x.dn) - 1 ELSE qa \div x.dn
    IN  s * m

(***************************************************************************)
(* Python string helpers.  A string is a sequence of one-character         *)
(* strings.                                                                *)
(***************************************************************************)
LowerHex == <<"0", "1", "2", "3", "4", "5", "6", "7", "8", "9", "a", "b", "c", "d", "e", "f">>

UpperHex == <<"0", "1", "2", "3", "4", "5", "6", "7", "8", "9", "A", "B", "C", "D", "E", "F">>

IsHexDigit(ch) == \E i \in 1..16 : LowerHex[i] = ch \/ UpperHex[i] = ch

HexVal(ch) == (CHOOSE i \in 1..16 : LowerHex[i] = ch \/ UpperHex[i] = ch) - 1

\* the whitespace the number parser skips (C isspace): space, tab, newline,
\* vertical tab, form feed and carriage return
IsSpace(ch) == ch \in {" ", "\t", "\n", "", "\f", "\r"}

\* the whitespace outside ASCII that a string literal can hold: U+0085,
\* U+00A0 and U+1680 (Python knows sixteen more: U+2000..U+200A, U+2028,
\* U+2029, U+202F, U+205F and U+3000)
UnicodeSpace == {"", " ", " "}

\* the decimal digits outside ASCII that a string literal can hold, one row
\* per script (Extended Arabic-Indic, NKo, Bengali, Gujarati, Tamil, Kannada,
\* Sinhala Lith, Lao, Myanmar Shan, Khmer, New Tai Lue, Tai Tham Hora, Tai
\* Tham Tham, Sundanese, Saurashtra, Javanese, Myanmar Tai Laing, Meetei
\* Mayek), each row holding the digits 0..9 in order; Python knows the
\* digits of 47 more scripts
DecimalDigits ==
    <<
      <<"۰", "۱", "۲", "۳", "۴", "۵", "۶", "۷", "۸", "۹">>,
      <<"߀", "߁", "߂", "߃", "߄", "߅", "߆", "߇", "߈", "߉">>,
      <<"০", "১", "২", "৩", "৪", "৫", "৬", "৭", "৮", "৯">>,
      <<"૦", "૧", "૨", "૩", "૪", "૫", "૬", "૭", "૮", "૯">>,
      <<"௦", "௧", "௨", "௩", "௪", "௫", "௬", "௭", "௮", "௯">>,
      <<"೦", "೧", "೨", "೩", "೪", "೫", "೬", "೭", "೮", "೯">>,
      <<"෦", "෧", "෨", "෩", "෪", "෫", "෬", "෭", "෮", "෯">>,
      <<"໐", "໑", "໒", "໓", "໔", "໕", "໖", "໗", "໘", "໙">>,
      <<"႐", "႑", "႒", "႓", "႔", "႕", "႖", "႗", "႘", "႙">>,
      <<"០", "១", "២", "៣", "៤", "៥", "៦", "៧", "៨", "៩">>,
      <<"᧐", "᧑", "᧒", "᧓", "᧔", "᧕", "᧖", "᧗", "᧘", "᧙">>,
      <<"᪀", "᪁", "᪂", "᪃", "᪄", "᪅", "᪆", "᪇", "᪈", "᪉">>,
      <<"᪐", "᪑", "᪒", "᪓", "᪔", "᪕", "᪖", "᪗", "᪘", "᪙">>,
      <<"᮰", "᮱", "᮲", "᮳", "᮴", "᮵", "᮶", "᮷", "᮸", "᮹">>,
      <<"꣐", "꣑", "꣒", "꣓", "꣔", "꣕", "꣖", "꣗", "꣘", "꣙">>,
      <<"꧐", "꧑", "꧒", "꧓", "꧔", "꧕", "꧖", "꧗", "꧘", "꧙">>,
      <<"꧰", "꧱", "꧲", "꧳", "꧴", "꧵", "꧶", "꧷", "꧸", "꧹">>,
      <<"꯰", "꯱", "꯲", "꯳", "꯴", "꯵", "꯶", "꯷", "꯸", "꯹">>
    >>

WideDigits == {DecimalDigits[r][v] : r \in 1..Len(DecimalDigits), v \in 1..10}

IsWideDigit(ch) == ch \in WideDigits

WideDigitValue(ch) ==
    CHOOSE v \in 0..9 : \E r \in 1..Len(DecimalDigits) : DecimalDigits[r][v + 1] = ch

\* what int() does to a str before parsing it: a string without
\* whitespace or digits from outside ASCII is taken as it is; in any other,
\* ASCII characters are kept, a whitespace character outside ASCII becomes
\* a space and a decimal digit outside ASCII its ASCII digit (any other
\* character outside ASCII is left in place here and fails the parse, as
\* the "?" it becomes does)
TransformDecimalAndSpaceToASCII(s) ==
    IF \A i \in 1..Len(s) : s[i] \notin UnicodeSpace /\ ~IsWideDigit(s[i])
    THEN s
    ELSE [i \in 1..Len(s) |->
            IF s[i] \in UnicodeSpace THEN " "
            ELSE IF IsWideDigit(s[i]) THEN LowerHex[WideDigitValue(s[i]) + 1]
            ELSE s[i]]

\* s[i:j] for 0 <= i <= j (Python slicing clips at the end of the string)
Slice(s, i, j) ==
    LET hi == Min(j, Len(s))
    IN  IF i + 1 > hi THEN << >> ELSE SubSeq(s, i + 1, hi)

\* s.lstrip(ch)
RECURSIVE LStrip(_, _)
LStrip(s, ch) == IF s # << >> /\ Head(s) = ch THEN LStrip(Tail(s), ch) ELSE s

RECURSIVE LStripSpace(_)
LStripSpace(s) == IF s # << >> /\ IsSpace(Head(s)) THEN LStripSpace(Tail(s)) ELSE s

RECURSIVE RStripSpace(_)
RStripSpace(s) ==
    IF s # << >> /\ IsSpace(s[Len(s)]) THEN RStripSpace(SubSeq(s, 1, Len(s) - 1)) ELSE s

\* digits of a base-16 literal: hex digits, single underscores only between
\* digits (or right after a 0x prefix)
ValidHexBody(d, prefixed) ==
    /\ d # << >>
    /\ \A i \in 1..Len(d) : IsHexDigit(d[i]) \/ d[i] = "_"
    /\ IsHexDigit(d[Len(d)])
    /\ (IsHexDigit(d[1]) \/ prefixed)
    /\ \A i \in 1..(Len(d) - 1) : ~(d[i] = "_" /\ d[i + 1] = "_")

RECURSIVE HexBodyValue(_, _)
HexBodyValue(d, acc) ==
    IF d = << >> THEN acc
    ELSE IF Head(d) = "_" THEN HexBodyValue(Tail(d), acc)
    ELSE HexBodyValue(Tail(d), 16 * acc + HexVal(Head(d)))

\* the number parser on the stripped ASCII string t: an optional sign, an
\* optional 0x prefix and the digits; anything else is a ValueError
ParseBase16(t) ==
    LET signed == t # << >> /\ Head(t) \in {"+", "-"}
        sgn    == IF signed /\ Head(t) = "-" THEN -1 ELSE 1
        u      == IF signed THEN Tail(t) ELSE t
        pre    == Len(u) >= 2 /\ u[1] = "0" /\ u[2] \in {"x", "X"}
        d      == IF pre THEN Slice(u, 2, Len(u)) ELSE u
    IN  IF ValidHexBody(d, pre)
        THEN [ok |-> TRUE, val |-> sgn * HexBodyValue(d, 0)]
        ELSE [ok |-> FALSE, val |-> 0]

\* int(s, 16): the string is brought to ASCII, surrounding whitespace is
\* stripped and the rest parsed
PyIntBase16(s) == ParseBase16(RStripSpace(LStripSpace(TransformDecimalAndSpaceToASCII(s))))

(***************************************************************************)
(* Palette (generate_color_palette and its nested helpers).                *)
(***************************************************************************)
PaletteKeys ==
    {"primary", "secondary", "accent", "light", "dark", "highlight", "shadow", "background"}

\* hex_to_rgb: ok with the triple, or the ValueError raised by int()
hex_to_rgb(hex_color) ==
    LET h  == LStrip(hex_color, "#")
        p0 == PyIntBase16(Slice(h, 0, 2))
        p1 == PyIntBase16(Slice(h, 2, 4))
        p2 == PyIntBase16(Slice(h, 4, 6))
    IN  IF p0.ok /\ p1.ok /\ p2.ok
        THEN [ok |-> TRUE, rgb |-> <<p0.val, p1.val, p2.val>>]
        ELSE [ok |-> FALSE, rgb |-> << >>]

\* variant: the scaled channel is truncated but not clamped
adjust_brightness_NoClamp(color, factor) ==
    [i \in 1..3 |-> PyInt(FMul(color[i], factor))]

adjust_brightness(color, factor) ==
    [i \in 1..3 |-> Max(0, Min(255, PyInt(FMul(color[i], factor))))]

\* variant: the weights of the two colours are exchanged
blend_colors_Swapped(color1, color2, ratio) ==
    [i \in 1..3 |->
        PyInt(FAdd(FMul(color1[i], ratio),
                   FMul(color2[i], Flt(ratio.dn - ratio.n, ratio.dn))))]

\* ratio is a literal n/dn; 1 - ratio evaluates to the double nearest
\* (dn - n)/dn for the ratios the code uses (0.3 and the default 0.5)
blend_colors(color1, color2, ratio) ==
    [i \in 1..3 |->
        PyInt(FAdd(FMul(color1[i], Flt(ratio.dn - ratio.n, ratio.dn)),
                   FMul(color2[i], ratio)))]

\* variant: winter is given autumn's brightness
seasonal_adjustments_WinterAsAutumn(season) ==
    CASE season = "spring" -> [brightness |-> Flt(11, 10), saturation |-> Flt(115, 100)]
      [] season = "summer" -> [brightness |-> Flt(12, 10), saturation |-> Flt(11, 10)]
      [] season = "autumn" -> [brightness |-> Flt(9, 10), saturation |-> Flt(12, 10)]
      [] season = "winter" -> [brightness |-> Flt(9, 10), saturation |-> Flt(9, 10)]
      [] OTHER -> [brightness |-> Flt(10, 10), saturation |-> Flt(10, 10)]

seasonal_adjustments(season) ==
    CASE season = "spring" -> [brightness |-> Flt(11, 10), saturation |-> Flt(115, 100)]
      [] season = "summer" -> [brightness |-> Flt(12, 10), saturation |-> Flt(11, 10)]
      [] season = "autumn" -> [brightness |-> Flt(9, 10), saturation |-> Flt(12, 10)]
      [] season = "winter" -> [brightness |-> Flt(85, 100), saturation |-> Flt(9, 10)]
      [] OTHER -> [brightness |-> Flt(10, 10), saturation |-> Flt(10, 10)]

generate_color_palette(primary, secondary, season) ==
    LET p   == hex_to_rgb(primary)
        s   == hex_to_rgb(secondary)
        adj == seasonal_adjustments(season)
    IN  IF ~p.ok \/ ~s.ok
        THEN [status |-> "ValueError", colors |-> << >>]
        ELSE [status |-> "ok",
              colors |->
                [primary    |-> p.rgb,
                 secondary  |-> s.rgb,
                 accent     |-> blend_colors(p.rgb, s.rgb, Flt(3, 10)),
                 light      |-> adjust_brightness(p.rgb, adj.brightness),
                 dark       |-> adjust_brightness(p.rgb, Flt(7, 10)),
                 highlight  |-> adjust_brightness(s.rgb, Flt(13, 10)),
                 shadow     |-> <<50, 50, 50>>,
                 background |-> <<240, 240, 245>>]]

(***************************************************************************)
(* The process-wide pseudo-random generator of Python's random module.     *)
(* The generator is abstracted to a deterministic automaton over RngMod    *)
(* states: seeding sets the state from the seed, every draw steps the      *)
(* state and returns a value that is a function of it.  A drawing routine  *)
(* records the raw values it drew.                                         *)
(***************************************************************************)
RngStates == 0..(RngMod - 1)

\* the state random.seed(seed) puts the generator in, whatever its state was
\* (an integer seed is used by its absolute value)
SeedState(seed) == Abs(seed) % RngMod

\* variant: the generator is not reseeded
random_seed_Keep(s, seed) == s

\* random.seed(seed) on a generator in state s
random_seed(s, seed) == SeedState(seed)

\* the generator state after one random.uniform() call
RandomNext(s) == (s + 7) % RngMod

\* the generator state after n draws (RandomNext iterated n times)
RandomAfter(s, n) == (s + 7 * n) % RngMod

\* the values of the next n draws
RandomDraws(s, n) == [i \in 1..n |-> RandomAfter(s, i)]

(***************************************************************************)
(* Display list entries.  Coordinates are in hundredths of a pixel, so     *)
(* that size * 0.35 and the like stay integers; a gradient loop of         *)
(* concentric ellipses is one entry.                                       *)
(***************************************************************************)
Op(layer, shape, color, geom) ==
    [layer |-> layer, shape |-> shape, color |-> color, geom |-> geom]

Rgba(rgb, alpha) == rgb \o <<alpha>>

\* concatenation of a sequence of sequences
RECURSIVE Flatten(_)
Flatten(ss) == IF ss = << >> THEN << >> ELSE Head(ss) \o Flatten(Tail(ss))

(***************************************************************************)
(* Seasonal decoration (add_seasonal_elements and its four routines).      *)
(***************************************************************************)
add_spring_elements(size, colors) ==
    LET positions == <<<<10 * size, 10 * size>>, <<90 * size, 10 * size>>, <<90 * size, 90 * size>>>>
        flower(p) ==
            [i \in 1..5 |-> Op("seasonal", "ellipse", colors.highlight, <<p[1], p[2], i - 1, 800, 300>>)]
            \o <<Op("seasonal", "ellipse", colors.accent, <<p[1] - 200, p[2] - 200, p[1] + 200, p[2] + 200>>)>>
    IN  Flatten([k \in 1..3 |-> flower(positions[k])])

add_summer_elements(size, colors) ==
    LET center == size \div 2
    IN  [i \in 1..8 |->
            Op("seasonal", "line", colors.highlight, <<2, 100 * center, i - 1, 45 * size, 48 * size>>)]

add_autumn_elements(size, colors) ==
    LET leaf_positions == <<<<20 * size, 30 * size>>, <<80 * size, 70 * size>>, <<10 * size, 80 * size>>>>
    IN  [k \in 1..3 |->
            LET x == leaf_positions[k][1]
                y == leaf_positions[k][2]
            IN  Op("seasonal", "polygon", colors.secondary,
                   <<x, y - 800, x + 600, y, x, y + 800, x - 600, y>>)]

add_winter_elements(size, colors) ==
    LET flake_positions == <<<<15 * size, 20 * size>>, <<85 * size, 30 * size>>, <<20 * size, 80 * size>>>>
        flake(p) ==
            LET x == p[1]
                y == p[2]
            IN  <<Op("seasonal", "line", colors.highlight, <<2, x - 600, y, x + 600, y>>),
                  Op("seasonal", "line", colors.highlight, <<2, x, y - 600, x, y + 600>>),
                  Op("seasonal", "line", colors.highlight, <<1, x - 400, y - 400, x + 400, y + 400>>),
                  Op("seasonal", "line", colors.highlight, <<1, x - 400, y + 400, x + 400, y - 400>>)>>
    IN  Flatten([k \in 1..3 |-> flake(flake_positions[k])])

\* variant: an unknown season gets the summer decoration
add_seasonal_elements_SummerDefault(size, season, colors) ==
    CASE season = "spring" -> add_spring_elements(size, colors)
      [] season = "autumn" -> add_autumn_elements(size, colors)
      [] season = "winter" -> add_winter_elements(size, colors)
      [] OTHER -> add_summer_elements(size, colors)

add_seasonal_elements(size, season, colors) ==
    CASE season = "spring" -> add_spring_elements(size, colors)
      [] season = "summer" -> add_summer_elements(size, colors)
      [] season = "autumn" -> add_autumn_elements(size, colors)
      [] season = "winter" -> add_winter_elements(size, colors)
      [] OTHER -> << >>

(***************************************************************************)
(* Background.                                                             *)
(***************************************************************************)
draw_geometric_background(size, colors) ==
    LET center == size \div 2
        hexagon(ring, i) ==
            Op("background", "polygon", Rgba(colors.accent, Max(20, 80 - ring * 20)),
               <<100 * center, 30 * center + 4000 * ring, i, 100 * (20 - ring * 3)>>)
    IN  Flatten([r \in 1..3 |-> [i \in 1..6 |-> hexagon(r - 1, i - 1)]])

\* the five blobs of eight noise-perturbed points each, from the 40 values
\* random.uniform returned to the loop, in the order of the calls
AbstractBlobs(size, colors, noise) ==
    LET center == size \div 2
        blob(i) ==
            Op("background", "polygon", Rgba(colors.secondary, Max(10, 60 - i * 10)),
               <<100 * center, center * (60 + i * 10)>> \o SubSeq(noise, 8 * i + 1, 8 * i + 8))
    IN  [i \in 1..5 |-> blob(i - 1)]

\* five blobs of eight noise-perturbed points each: 40 draws
draw_abstract_background(size, colors, rng) ==
    [ops |-> AbstractBlobs(size, colors, RandomDraws(rng, 40)), rng |-> RandomAfter(rng, 40)]

\* variant: the seasonal decoration is drawn before the background shapes
draw_background_SeasonFirst(size, style, colors, season, rng) ==
    LET center == size \div 2
        base ==
            IF style = "geometric"
            THEN [ops |-> draw_geometric_background(size, colors), rng |-> rng]
            ELSE IF style = "abstract"
            THEN draw_abstract_background(size, colors, rng)
            ELSE [ops |-> IF center > 0
                          THEN <<Op("background", "ellipse_gradient", colors.primary,
                                    <<100 * center, 100 * center, center, 5>>)>>
                          ELSE << >>,
                  rng |-> rng]
    IN  [ops |-> add_seasonal_elements(size, season, colors) \o base.ops, rng |-> base.rng]

draw_background(size, style, colors, season, rng) ==
    LET center == size \div 2
        base ==
            IF style = "geometric"
            THEN [ops |-> draw_geometric_background(size, colors), rng |-> rng]
            ELSE IF style = "abstract"
            THEN draw_abstract_background(size, colors, rng)
            ELSE [ops |-> IF center > 0
                          THEN <<Op("background", "ellipse_gradient", colors.primary,
                                    <<100 * center, 100 * center, center, 5>>)>>
                          ELSE << >>,
                  rng |-> rng]
    IN  [ops |-> base.ops \o add_seasonal_elements(size, season, colors), rng |-> base.rng]

(***************************************************************************)
(* Face.                                                                   *)
(***************************************************************************)
\* scale in hundredths
\* variant: an unknown mood gets the adjustment of confident
mood_adjustments_ConfidentDefault(mood) ==
    CASE mood = "calm"       -> [scale |-> 95,  y_offset |-> 0]
      [] mood = "focused"    -> [scale |-> 100, y_offset |-> -3]
      [] mood = "creative"   -> [scale |-> 103, y_offset |-> -2]
      [] mood = "determined" -> [scale |-> 108, y_offset |-> -8]
      [] OTHER               -> [scale |-> 105, y_offset |-> -5]

mood_adjustments(mood) ==
    CASE mood = "confident"  -> [scale |-> 105, y_offset |-> -5]
      [] mood = "calm"       -> [scale |-> 95,  y_offset |-> 0]
      [] mood = "focused"    -> [scale |-> 100, y_offset |-> -3]
      [] mood = "creative"   -> [scale |-> 103, y_offset |-> -2]
      [] mood = "determined" -> [scale |-> 108, y_offset |-> -8]
      [] OTHER               -> [scale |-> 100, y_offset |-> 0]

\* the face drawn with a given adjustment: the gradient rings, then the
\* solid fill; the radius is size * 0.35 * scale, in 1/10000 pixel
FaceShapes(size, colors, adj) ==
    LET center   == size \div 2
        radius   == size * 35 * adj.scale
        y_center == center + adj.y_offset
        rings    == IF radius >= 10000
                    THEN <<Op("face", "ellipse_gradient", colors.light,
                              <<100 * center, 100 * y_center, radius, 2>>)>>
                    ELSE << >>
    IN  rings \o <<Op("face", "ellipse", colors.primary, <<100 * center, 100 * y_center, radius>>)>>

draw_face(size, colors, mood) == FaceShapes(size, colors, mood_adjustments(mood))

(***************************************************************************)
(* Hair: nine routines selected by index, classic for any other index.     *)
(***************************************************************************)
draw_hair_classic(size, center, hair_color, colors) ==
    <<Op("hair", "ellipse", hair_color,
         <<100 * center - 40 * size, 40 * center - 32 * size,
           100 * center + 40 * size, 40 * center + 32 * size>>)>>

\* the twenty circles of the pixie from the 60 values random.uniform
\* returned to the loop, in the order of the calls
PixieCircles(size, center, hair_color, colors, drawn) ==
    [i \in 1..20 |->
        Op("hair", "ellipse", hair_color,
           <<100 * center, 60 * center>> \o SubSeq(drawn, 3 * i - 2, 3 * i))]

\* twenty circles, three draws each (angle, distance, radius)
draw_hair_pixie(size, center, hair_color, colors, rng) ==
    [ops |-> PixieCircles(size, center, hair_color, colors, RandomDraws(rng, 60)),
     rng |-> RandomAfter(rng, 60)]

draw_hair_bob(size, center, hair_color, colors) ==
    <<Op("hair", "polygon", hair_color, <<100 * center, 50 * center, 38 * size, 9>>)>>
    \o [i \in 1..3 |->
          LET x == 100 * center - 20 * size + (i - 1) * 20 * size
              y == 40 * center
          IN  Op("hair", "ellipse", colors.highlight, <<x - 1000, y - 500, x + 1000, y + 500>>)]

draw_hair_curly(size, center, hair_color, colors) ==
    LET curl_positions ==
            <<<<100 * center - 25 * size, 40 * center>>, <<100 * center + 25 * size, 40 * center>>,
              <<100 * center - 15 * size, 30 * center>>, <<100 * center + 15 * size, 30 * center>>,
              <<100 * center, 25 * center>>>>
        radii == <<25, 20, 15>>
        curl(p) ==
            [k \in 1..3 |->
                Op("hair", "ellipse",
                   IF Len(hair_color) = 3 THEN Rgba(hair_color, 255 - (25 - radii[k]) * 8) ELSE hair_color,
                   <<p[1], p[2], radii[k]>>)]
    IN  Flatten([n \in 1..5 |-> curl(curl_positions[n])])

draw_hair_braided(size, center, hair_color, colors) ==
    draw_hair_classic(size, center, hair_color, colors)
    \o [k \in 1..3 |->
          LET i == k - 1
              y == 50 * center + 2000 * i
          IN  Op("hair", "line", colors.highlight,
                 <<3, 100 * (center - 30 + (i % 2) * 20), y, 100 * (center + 30 - (i % 2) * 20), y>>)]

draw_hair_long(size, center, hair_color, colors) ==
    <<Op("hair", "polygon", hair_color, <<100 * center, 30 * center, 45 * size, 35 * size, 13>>)>>
    \o [k \in 1..5 |->
          Op("hair", "line", colors.highlight, <<2, 70 * center + 1500 * (k - 1), k - 1, 10>>)]

\* the fifty circles of the afro from the 150 values random.uniform
\* returned to the loop, in the order of the calls
AfroCircles(size, center, hair_color, colors, drawn) ==
    [i \in 1..50 |->
        Op("hair", "ellipse", hair_color,
           <<100 * center, 50 * center, 45 * size>> \o SubSeq(drawn, 3 * i - 2, 3 * i))]

\* fifty circles, three draws each (angle, distance, radius)
draw_hair_afro(size, center, hair_color, colors, rng) ==
    [ops |-> AfroCircles(size, center, hair_color, colors, RandomDraws(rng, 150)),
     rng |-> RandomAfter(rng, 150)]

draw_hair_updo(size, center, hair_color, colors) ==
    LET updo_center_y == 35 * center
    IN  <<Op("hair", "ellipse", hair_color,
             <<100 * center - 25 * size, updo_center_y - 15 * size,
               100 * center + 25 * size, updo_center_y + 15 * size>>)>>
        \o [k \in 1..3 |->
              LET x == 100 * (center - 20 + (k - 1) * 20)
              IN  Op("hair", "ellipse", colors.accent,
                     <<x - 300, updo_center_y - 300, x + 300, updo_center_y + 300>>)]

draw_hair_modern(size, center, hair_color, colors) ==
    LET c == 100 * center
    IN  <<Op("hair", "polygon", hair_color,
             <<c - 40 * size, 60 * center, c - 20 * size, 30 * center, c, 25 * center, c - 30 * size, 80 * center>>),
          Op("hair", "polygon", hair_color,
             <<c, 25 * center, c + 30 * size, 30 * center, c + 35 * size, 70 * center, c + 20 * size, 80 * center>>),
          Op("hair", "polygon", colors.highlight,
             <<c - 10 * size, 30 * center, c + 10 * size, 25 * center, c + 15 * size, 40 * center, c - 5 * size, 45 * center>>)>>

\* variant: an unknown index gets the bob
HairRoutine_BobDefault(hair_style) ==
    CASE hair_style = 0 -> "classic"
      [] hair_style = 1 -> "pixie"
      [] hair_style = 3 -> "curly"
      [] hair_style = 4 -> "braided"
      [] hair_style = 5 -> "long"
      [] hair_style = 6 -> "afro"
      [] hair_style = 7 -> "updo"
      [] hair_style = 8 -> "modern"
      [] OTHER -> "bob"

\* hair_styles.get(hair_style, self.draw_hair_classic)
HairRoutine(hair_style) ==
    CASE hair_style = 0 -> "classic"
      [] hair_style = 1 -> "pixie"
      [] hair_style = 2 -> "bob"
      [] hair_style = 3 -> "curly"
      [] hair_style = 4 -> "braided"
      [] hair_style = 5 -> "long"
      [] hair_style = 6 -> "afro"
      [] hair_style = 7 -> "updo"
      [] hair_style = 8 -> "modern"
      [] OTHER -> "classic"

\* variant: the bob is scattered from the random stream as the pixie is
draw_hair_BobFromStream(size, hair_style, colors, rng) ==
    LET center     == size \div 2
        hair_color == colors.dark
        routine    == HairRoutine(hair_style)
        still(ops) == [ops |-> ops, rng |-> rng]
    IN  CASE routine = "classic" -> still(draw_hair_classic(size, center, hair_color, colors))
          [] routine = "pixie"   -> draw_hair_pixie(size, center, hair_color, colors, rng)
          [] routine = "bob"     -> draw_hair_pixie(size, center, hair_color, colors, rng)
          [] routine = "curly"   -> still(draw_hair_curly(size, center, hair_color, colors))
          [] routine = "braided" -> still(draw_hair_braided(size, center, hair_color, colors))
          [] routine = "long"    -> still(draw_hair_long(size, center, hair_color, colors))
          [] routine = "afro"    -> draw_hair_afro(size, center, hair_color, colors, rng)
          [] routine = "updo"    -> still(draw_hair_updo(size, center, hair_color, colors))
          [] routine = "modern"  -> still(draw_hair_modern(size, center, hair_color, colors))

draw_hair(size, hair_style, colors, rng) ==
    LET center     == size \div 2
        hair_color == colors.dark
        routine    == HairRoutine(hair_style)
        still(ops) == [ops |-> ops, rng |-> rng]
    IN  CASE routine = "classic" -> still(draw_hair_classic(size, center, hair_color, colors))
          [] routine = "pixie"   -> draw_hair_pixie(size, center, hair_color, colors, rng)
          [] routine = "bob"     -> still(draw_hair_bob(size, center, hair_color, colors))
          [] routine = "curly"   -> still(draw_hair_curly(size, center, hair_color, colors))
          [] routine = "braided" -> still(draw_hair_braided(size, center, hair_color, colors))
          [] routine = "long"    -> still(draw_hair_long(size, center, hair_color, colors))
          [] routine = "afro"    -> draw_hair_afro(size, center, hair_color, colors, rng)
          [] routine = "updo"    -> still(draw_hair_updo(size, center, hair_color, colors))
          [] routine = "modern"  -> still(draw_hair_modern(size, center, hair_color, colors))

(***************************************************************************)
(* Eyes: five routines selected by index, round for any other index.  The  *)
(* mood is passed to the routines but none of them reads it.               *)
(***************************************************************************)
EyePair(shape, color, left_x, right_x, y, geom) ==
    <<Op("eyes", shape, color, <<left_x, y>> \o geom),
      Op("eyes", shape, color, <<right_x, y>> \o geom)>>

draw_eyes_round(left_x, right_x, y, eye_color, highlight_color, mood) ==
    EyePair("ellipse", eye_color, left_x, right_x, y, <<12>>)
    \o EyePair("ellipse", highlight_color, left_x, right_x, y - 600, <<4>>)

draw_eyes_almond(left_x, right_x, y, eye_color, highlight_color, mood) ==
    EyePair("polygon", eye_color, left_x, right_x, y, <<-15, 0, -5, -8, 5, -8, 15, 0, 5, 8, -5, 8>>)
    \o EyePair("ellipse", highlight_color, left_x, right_x, y, <<-3, -5, 3, -2>>)

draw_eyes_wide(left_x, right_x, y, eye_color, highlight_color, mood) ==
    EyePair("ellipse", eye_color, left_x, right_x, y, <<20, 8>>)
    \o EyePair("ellipse", highlight_color, left_x, right_x, y, <<-6, -4, 6, 2>>)

draw_eyes_focused(left_x, right_x, y, eye_color, highlight_color, mood) ==
    <<Op("eyes", "polygon", eye_color, <<left_x, y, -12, -5, 12, -8, 12, 8, -12, 5>>),
      Op("eyes", "polygon", eye_color, <<right_x, y, -12, -8, 12, -5, 12, 5, -12, 8>>)>>
    \o EyePair("ellipse", highlight_color, left_x, right_x, y, <<-2, -3, 2, -1>>)

draw_eyes_artistic(left_x, right_x, y, eye_color, highlight_color, mood) ==
    <<Op("eyes", "polygon", eye_color, <<left_x, y, -10, 0, -5, -12, 8, -5, 8, 5, -5, 8>>),
      Op("eyes", "polygon", eye_color, <<right_x, y, -8, -8, 10, -6, 12, 2, -6, 8>>),
      Op("eyes", "ellipse", highlight_color, <<left_x, y, -1, -6, 3, -2>>),
      Op("eyes", "polygon", highlight_color, <<right_x, y, -2, -4, 4, -3, 2, 1>>)>>

draw_eyes(size, eye_style, colors, mood) ==
    LET center          == size \div 2
        eye_y           == 85 * center
        left_eye_x      == 100 * center - 15 * size
        right_eye_x     == 100 * center + 15 * size
        eye_color       == colors.dark
        highlight_color == <<255, 255, 255>>
    IN  CASE eye_style = 1 -> draw_eyes_almond(left_eye_x, right_eye_x, eye_y, eye_color, highlight_color, mood)
          [] eye_style = 2 -> draw_eyes_wide(left_eye_x, right_eye_x, eye_y, eye_color, highlight_color, mood)
          [] eye_style = 3 -> draw_eyes_focused(left_eye_x, right_eye_x, eye_y, eye_color, highlight_color, mood)
          [] eye_style = 4 -> draw_eyes_artistic(left_eye_x, right_eye_x, eye_y, eye_color, highlight_color, mood)
          [] OTHER -> draw_eyes_round(left_eye_x, right_eye_x, eye_y, eye_color, highlight_color, mood)

(***************************************************************************)
(* Mouth.                                                                  *)
(***************************************************************************)
\* the point list of a mood, as <<x, y>> pairs in hundredths of a pixel
MouthPointsOf(size, mood) ==
    LET c == 100 * (size \div 2)
        y == 120 * (size \div 2)
    IN  CASE mood = "confident"  -> <<<<c - 1500, y>>, <<c, y + 800>>, <<c + 1500, y>>>>
          [] mood = "calm"       -> <<<<c - 1200, y>>, <<c, y + 400>>, <<c + 1200, y>>>>
          [] mood = "focused"    -> <<<<c - 1000, y>>, <<c + 1000, y>>>>
          [] mood = "creative"   -> <<<<c - 2000, y>>, <<c - 500, y + 1000>>, <<c + 500, y - 200>>, <<c + 2000, y + 500>>>>
          [] mood = "determined" -> <<<<c - 1800, y - 200>>, <<c, y + 600>>, <<c + 1800, y - 200>>>>

KnownMoods == {"confident", "calm", "focused", "creative", "determined"}

\* mood_mouths.get(mood, mood_mouths['confident'])
mood_mouths(size, mood) ==
    IF mood \in KnownMoods THEN MouthPointsOf(size, mood) ELSE MouthPointsOf(size, "confident")

\* variant: every list of more than two points is filled
MouthShapes_ElsePolygon(colors, mouth_points) ==
    LET mouth_color == colors.accent
        flat        == Flatten(mouth_points)
    IN  IF Len(mouth_points) = 2
        THEN <<Op("mouth", "line", mouth_color, <<3>> \o flat)>>
        ELSE <<Op("mouth", "polygon", mouth_color, flat)>>

\* the mouth drawn from a point list
MouthShapes(colors, mouth_points) ==
    LET mouth_color == colors.accent
        flat        == Flatten(mouth_points)
    IN  IF Len(mouth_points) = 2
        THEN <<Op("mouth", "line", mouth_color, <<3>> \o flat)>>
        ELSE IF Len(mouth_points) = 3
        THEN <<Op("mouth", "polygon", mouth_color, flat)>>
        ELSE <<Op("mouth", "line", mouth_color, <<2>> \o flat)>>

draw_mouth(size, colors, mood) == MouthShapes(colors, mood_mouths(size, mood))

(***************************************************************************)
(* Accessories.                                                            *)
(***************************************************************************)
draw_glasses(center, size, colors) ==
    LET glass_color  == colors.dark
        eye_y        == 85 * center
        eye_distance == 15 * size
        c            == 100 * center
    IN  <<Op("accessories", "glasses_lens", glass_color, <<3, c - eye_distance, eye_y, 18>>),
          Op("accessories", "glasses_lens", glass_color, <<3, c + eye_distance, eye_y, 18>>),
          Op("accessories", "glasses_bridge", glass_color,
             <<2, c - eye_distance + 1800, eye_y, c + eye_distance - 1800, eye_y>>)>>

draw_earrings(center, size, colors) ==
    LET earring_color == colors.accent
        ear_y         == 100 * center
        ear_distance  == 25 * size
        c             == 100 * center
    IN  <<Op("accessories", "earring", earring_color, <<c - ear_distance, ear_y, 4>>),
          Op("accessories", "earring", earring_color, <<c + ear_distance, ear_y, 4>>)>>

draw_necklace(center, size, colors) ==
    LET necklace_color == colors.accent
        necklace_y     == 145 * center
    IN  [k \in 1..11 |->
            LET i == k - 6
            IN  Op("accessories", "necklace_chain", necklace_color,
                   <<100 * (center + i * 8), necklace_y + Abs(i) * 200, 2>>)]
        \o <<Op("accessories", "necklace_pendant", necklace_color,
                <<100 * center, necklace_y + 1000, 6>>)>>

\* 'name' in accessories
InList(name, list) == \E i \in 1..Len(list) : list[i] = name

\* variant: a loop over the list, each item drawn where it stands
draw_accessories_InListOrder(size, accessories, colors) ==
    LET center == size \div 2
    IN  Flatten([i \in 1..Len(accessories) |->
                   IF accessories[i] = "glasses" THEN draw_glasses(center, size, colors)
                   ELSE IF accessories[i] = "earrings" THEN draw_earrings(center, size, colors)
                   ELSE IF accessories[i] = "necklace" THEN draw_necklace(center, size, colors)
                   ELSE << >>])

\* variant: an elif chain, only the first accessory found is drawn
draw_accessories_FirstOnly(size, accessories, colors) ==
    LET center == size \div 2
    IN  IF InList("glasses", accessories) THEN draw_glasses(center, size, colors)
        ELSE IF InList("earrings", accessories) THEN draw_earrings(center, size, colors)
        ELSE IF InList("necklace", accessories) THEN draw_necklace(center, size, colors)
        ELSE << >>

draw_accessories(size, accessories, colors) ==
    LET center == size \div 2
    IN  (IF InList("glasses", accessories) THEN draw_glasses(center, size, colors) ELSE << >>)
        \o (IF InList("earrings", accessories) THEN draw_earrings(center, size, colors) ELSE << >>)
        \o (IF InList("necklace", accessories) THEN draw_necklace(center, size, colors) ELSE << >>)

(***************************************************************************)
(* Filters.  An image is its size and its display list; a filter or a      *)
(* resampling returns a new image whose list has one more entry.           *)
(***************************************************************************)
Filtered(img, name, param) ==
    [size |-> img.size, ops |-> Append(img.ops, Op("effects", name, << >>, <<param>>))]

\* variant: the mood filter is applied before the style filter
apply_visual_effects_MoodFirst(img, style, mood) ==
    LET mooded == IF mood = "creative" THEN Filtered(img, "Color", 115)
                  ELSE IF mood = "calm" THEN Filtered(img, "Color", 90)
                  ELSE img
    IN  IF style = "geometric" THEN Filtered(mooded, "SHARPEN", 0)
        ELSE IF style = "abstract" THEN Filtered(mooded, "GaussianBlur", 50)
        ELSE IF style = "artistic" THEN Filtered(mooded, "Contrast", 120)
        ELSE mooded

apply_visual_effects(img, style, mood) ==
    LET styled == IF style = "geometric" THEN Filtered(img, "SHARPEN", 0)
                  ELSE IF style = "abstract" THEN Filtered(img, "GaussianBlur", 50)
                  ELSE IF style = "artistic" THEN Filtered(img, "Contrast", 120)
                  ELSE img
    IN  IF mood = "creative" THEN Filtered(styled, "Color", 115)
        ELSE IF mood = "calm" THEN Filtered(styled, "Color", 90)
        ELSE styled

(***************************************************************************)
(* generate_procedural_avatar.                                             *)
(***************************************************************************)
\* the Python values of the accessories parameter: None or a list
PyNone == [none |-> TRUE, items |-> << >>]

PyList(items) == [none |-> FALSE, items |-> items]

\* truth value of "if accessories:"
Truthy(v) == ~v.none /\ v.items # << >>

\* "#8b5cf6" as a sequence of characters
Hex6(a, b, c, d, e, f) == <<"#", a, b, c, d, e, f>>

\* the defaults of the signature
DefaultArgs ==
    [size            |-> 512,
     style           |-> "portrait",
     primary_color   |-> Hex6("8", "b", "5", "c", "f", "6"),
     secondary_color |-> Hex6("f", "5", "9", "e", "0", "b"),
     mood            |-> "confident",
     season          |-> "summer",
     hair_style      |-> 2,
     eye_style       |-> 1,
     accessories     |-> PyNone,
     seed            |-> 42]

ParamNames == DOMAIN DefaultArgs

\* binding of keyword arguments to the parameters
BindArgs(kwargs) ==
    [k \in ParamNames |-> IF k \in DOMAIN kwargs THEN kwargs[k] ELSE DefaultArgs[k]]

NoImage == [size |-> <<0, 0>>, ops |-> << >>]

NoPalette == [none |-> TRUE]

\* lines 70-81: the layers over the background, the filters, the return
DrawLayers(args, colors, bg, hair) ==
    [status |-> "ok",
     image  |-> apply_visual_effects(
                    [size |-> <<args.size, args.size>>,
                     ops  |-> bg.ops
                              \o draw_face(args.size, colors, args.mood)
                              \o hair.ops
                              \o draw_eyes(args.size, args.eye_style, colors, args.mood)
                              \o draw_mouth(args.size, colors, args.mood)
                              \o (IF Truthy(args.accessories)
                                  THEN draw_accessories(args.size, args.accessories.items, colors)
                                  ELSE << >>)],
                    args.style, args.mood),
     colors |-> colors,
     rng    |-> hair.rng]

\* variant: the generator is seeded again before the hair is drawn
DrawOn_Reseeded(args, colors, bg) ==
    DrawLayers(args, colors, bg,
               draw_hair(args.size, args.hair_style, colors, SeedState(args.seed)))

\* lines 69-81 with the palette in hand: the hair draws from the generator
\* where the background left it
DrawOn(args, colors, bg) ==
    DrawLayers(args, colors, bg, draw_hair(args.size, args.hair_style, colors, bg.rng))

\* lines 62-81 with the generator seeded: a palette failure propagates
\* before anything is drawn
RenderSeeded(args, seeded, palette) ==
    IF palette.status # "ok"
    THEN [status |-> palette.status, image |-> NoImage, colors |-> NoPalette, rng |-> seeded]
    ELSE DrawOn(args, palette.colors,
                draw_background(args.size, args.style, palette.colors, args.season, seeded))

\* the body of generate_procedural_avatar, started with the process-wide
\* generator in state rng: the outcome, the returned image, the palette
\* the layers were drawn with and the generator state it leaves behind
generate_procedural_avatar(args, rng) ==
    RenderSeeded(args, random_seed(rng, args.seed),
                 generate_color_palette(args.primary_color, args.secondary_color, args.season))

(***************************************************************************)
(* generate_icon_set.                                                      *)
(***************************************************************************)
\* variant: the whitelist lets the key name through
valid_params_WithName ==
    {"size", "style", "primary_color", "secondary_color", "mood",
     "season", "hair_style", "eye_style", "accessories", "seed", "name"}

valid_params ==
    {"size", "style", "primary_color", "secondary_color", "mood",
     "season", "hair_style", "eye_style", "accessories", "seed"}

\* base_avatar.resize((size, size), Image.LANCZOS)
Resize(img, size) ==
    [size |-> <<size, size>>, ops |-> Append(img.ops, Op("resize", "LANCZOS", << >>, <<size, size>>))]

\* variant: the 512 entry is resampled like the others
IconEntry_AlwaysResize(base_avatar, size) == Resize(base_avatar, size)

\* one entry of the returned mapping (the body of the loop over ICON_SIZES)
IconEntry(base_avatar, size) ==
    IF size = 512 THEN base_avatar ELSE Resize(base_avatar, size)

\* the record of one generate_procedural_avatar invocation
AvatarCall(args, r) ==
    [op |-> "generate_procedural_avatar", args |-> args,
     status |-> r.status, image |-> r.image, colors |-> r.colors]

\* lines 691-700: the mapping built from the base render
IconsFrom(args, r) ==
    IF r.status # "ok"
    THEN [status |-> r.status, icons |-> << >>, calls |-> <<AvatarCall(args, r)>>, rng |-> r.rng]
    ELSE [status |-> "ok",
          icons  |-> [size \in {ICON_SIZES[i] : i \in 1..Len(ICON_SIZES)} |->
                         IconEntry(r.image, size)],
          calls  |-> <<AvatarCall(args, r)>>,
          rng    |-> r.rng]

\* the call generate_procedural_avatar(size=512, **filtered_config)
BaseRender(args, rng) == IconsFrom(args, generate_procedural_avatar(args, rng))

\* lines 685-700 with the filtered dict in hand
IconSetOf(filtered_config, rng) ==
    IF "size" \in DOMAIN filtered_config \/ ~(DOMAIN filtered_config \subseteq ParamNames)
    THEN \* size=512 and **filtered_config both bind size, or a keyword
         \* that is no parameter of generate_procedural_avatar
         [status |-> "TypeError", icons |-> << >>, calls |-> << >>, rng |-> rng]
    ELSE BaseRender(BindArgs([k \in (DOMAIN filtered_config) \cup {"size"} |->
                                 IF k = "size" THEN BaseSize ELSE filtered_config[k]]),
                    rng)

\* the body of generate_icon_set: the outcome, the returned mapping, the
\* generate_procedural_avatar invocations it made and the generator state
generate_icon_set(config, rng) ==
    IconSetOf([k \in (DOMAIN config) \cap valid_params |-> config[k]], rng)

(***************************************************************************)
(* Inputs.                                                                 *)
(***************************************************************************)
Seasons == {"spring", "summer", "autumn", "winter"}

\* well-formed: an optional '#' followed by exactly six hex digits
WellFormedHex(c) ==
    LET d == IF c # << >> /\ Head(c) = "#" THEN Tail(c) ELSE c
    IN  Len(d) = 6 /\ \A i \in 1..6 : IsHexDigit(d[i])

ValidColors ==
    {Hex6("8", "b", "5", "c", "f", "6"), Hex6("f", "5", "9", "e", "0", "b"),
     Hex6("d", "9", "7", "7", "0", "6"), Hex6("1", "f", "2", "9", "3", "7"),
     Hex6("F", "F", "F", "F", "F", "F"), <<"0", "0", "0", "0", "0", "0">>,
     <<"5", "a", "b", "4", "0", "6">>}

MalformedColors ==
    {<<"#", "#", "f", "f", "f", "f", "f", "f">>,            \* several leading '#'
     <<"#", "8", "b", "5", "c", "f", "6", "f", "f">>,       \* too long
     <<"-", "1", "-", "1", "-", "1">>,                      \* signs
     <<"+", "f", " ", "f", "f", " ">>,                      \* sign and spaces
     <<"#", "\f", "f", "\f", "f", "\f", "f">>,             \* form feeds
     <<"#", "", "f", "", "f", "", "f">>,                \* vertical tabs
     <<" ", "f", "৯", "1", "f", "">>,                      \* outside ASCII
     <<"f", "f", "f", "f", "f">>,                           \* five digits
     <<"f", "f", "f", "f">>,                                \* four digits
     <<"g", "g", "g", "g", "g", "g">>,                      \* not hex digits
     <<"0", "x", "f", "f", "f", "f">>,                      \* 0x prefix
     <<"r", "e", "d">>,
     << >>}

ColorInputs == ValidColors \cup MalformedColors

SeasonInputs == Seasons \cup {"monsoon", ""}

MoodInputs == KnownMoods \cup {"sleepy", "Calm"}

StyleInputs == {"portrait", "geometric", "abstract", "artistic", "minimal"}

HairInputs == (0..8) \cup {-1, 9, 99}

EyeInputs == (0..4) \cup {-1, 5}

AccessoryInputs ==
    {PyNone, PyList(<< >>), PyList(<<"glasses">>), PyList(<<"earrings">>), PyList(<<"necklace">>),
     PyList(<<"glasses", "earrings">>), PyList(<<"necklace", "hat", "glasses", "necklace">>),
     PyList(<<"hat">>)}

SeedInputs == {42, 7, -7, 123}

\* the configurations of main()
MainConfigurations ==
    {[name |-> "grace_and_grind", style |-> "portrait",
      primary_color |-> Hex6("8", "b", "5", "c", "f", "6"),
      secondary_color |-> Hex6("f", "5", "9", "e", "0", "b"),
      mood |-> "confident", season |-> "summer", hair_style |-> 2, eye_style |-> 1,
      accessories |-> PyList(<<"earrings">>), seed |-> 42],
     [name |-> "southern_grit", style |-> "artistic",
      primary_color |-> Hex6("d", "9", "7", "7", "0", "6"),
      secondary_color |-> Hex6("9", "2", "4", "0", "0", "e"),
      mood |-> "determined", season |-> "autumn", hair_style |-> 4, eye_style |-> 2,
      accessories |-> PyList(<< >>), seed |-> 123],
     [name |-> "midnight_hustle", style |-> "minimal",
      primary_color |-> Hex6("1", "f", "2", "9", "3", "7"),
      secondary_color |-> Hex6("6", "3", "6", "6", "f", "1"),
      mood |-> "focused", season |-> "winter", hair_style |-> 1, eye_style |-> 3,
      accessories |-> PyList(<<"glasses">>), seed |-> 456],
     [name |-> "soul_care", style |-> "abstract",
      primary_color |-> Hex6("0", "5", "9", "6", "6", "9"),
      secondary_color |-> Hex6("1", "0", "b", "9", "8", "1"),
      mood |-> "calm", season |-> "spring", hair_style |-> 6, eye_style |-> 0,
      accessories |-> PyList(<<"necklace">>), seed |-> 789],
     [name |-> "creative_vision", style |-> "geometric",
      primary_color |-> Hex6("7", "c", "3", "a", "e", "d"),
      secondary_color |-> Hex6("f", "b", "b", "f", "2", "4"),
      mood |-> "creative", season |-> "summer", hair_style |-> 8, eye_style |-> 4,
      accessories |-> PyList(<<"glasses", "earrings">>), seed |-> 999]}

\* a dict without the keys that are not in keep
Restrict(d, keep) == [k \in (DOMAIN d) \cap keep |-> d[k]]

\* keyword arguments of the direct calls: every parameter varied on its
\* own, the randomised routines under several seeds, main()'s settings
AvatarKwargs ==
    {[style |-> v] : v \in StyleInputs}
    \cup {[primary_color |-> v] : v \in {Hex6("d", "9", "7", "7", "0", "6"),
                                         <<"-", "1", "-", "1", "-", "1">>, <<"r", "e", "d">>}}
    \cup {[secondary_color |-> <<"f", "f", "f", "f">>]}
    \cup {[mood |-> v] : v \in MoodInputs}
    \cup {[season |-> v] : v \in SeasonInputs}
    \cup {[hair_style |-> v] : v \in HairInputs}
    \cup {[eye_style |-> v] : v \in EyeInputs}
    \cup {[accessories |-> v] : v \in AccessoryInputs}
    \cup {[seed |-> v] : v \in SeedInputs}
    \cup {[size |-> 48]}
    \cup {[style |-> "abstract", seed |-> v] : v \in {7, 123}}
    \cup {[hair_style |-> h, seed |-> 7] : h \in {1, 6}}
    \cup {[primary_color |-> <<"r", "e", "d">>, seed |-> 7]}
    \cup {[style |-> "abstract", hair_style |-> 1, season |-> "monsoon"]}
    \cup {Restrict(c, valid_params) : c \in MainConfigurations}

\* configurations handed to generate_icon_set
IconConfigs ==
    MainConfigurations
    \cup {[name |-> "plain"], [size |-> 256, name |-> "sized"],
          [name |-> "broken", primary_color |-> <<"r", "e", "d">>],
          [name |-> "fallbacks", hair_style |-> 99, mood |-> "sleepy", season |-> "monsoon"],
          [name |-> "pixie", hair_style |-> 1, seed |-> 7],
          [size |-> 256], [mood |-> "calm", season |-> "winter"]}

\* the render draws from the random stream
DrawsRandom(args) == args.style = "abstract" \/ args.hair_style \in {1, 6}

(***************************************************************************)
(* State: the program as it runs, one call after another.                  *)
(***************************************************************************)
VARIABLES
    rng,      \* state of the process-wide generator of the random module
    last,     \* the most recent call and what it returned
    earlier,  \* an earlier generate_procedural_avatar call the caller kept
    pal,      \* a generate_color_palette call: its arguments and its result
    threads,  \* per thread: the generate_procedural_avatar call it is in
    batch,    \* a run of main(): its position, what it rendered, the files written
    overlay,  \* a call of the overlay pipeline's generate(): arguments, files, result
    orb       \* a run of the mood-orb script: its argument, the files, its exit

vars == <<rng, last, earlier, pal, threads, batch, overlay, orb>>

Threads == {1, 2}

\* a thread that is in no call: the calls it has made and the times it was
\* switched out inside a drawing loop
Idle == [pc |-> "idle", calls |-> 0, switches |-> 0]

NoCall == [op |-> "none"]

NoBatch == [pc |-> "none"]

NoOverlay == [pc |-> "none"]

NoOrb == [pc |-> "none"]

Init ==
    /\ rng \in RngStates
    /\ last = NoCall
    /\ earlier = NoCall
    /\ pal = NoCall
    /\ threads = [t \in Threads |-> Idle]
    /\ batch = NoBatch
    /\ overlay = NoOverlay
    /\ orb = NoOrb

\* the renders a caller keeps for a later comparison: those that draw
\* random values, and the render of the defaults
Keepable(call) ==
    /\ call.op = "generate_procedural_avatar"
    /\ call.status = "ok"
    /\ (DrawsRandom(call.args) \/ call.args = DefaultArgs)

KeepChoices == IF Keepable(last) THEN BOOLEAN ELSE {FALSE}

\* the kept call after one more call: the previous call if the caller keeps
\* it now; a kept call remembers whether a call with another seed failed
\* after it
Kept(keep, call) ==
    IF keep THEN [call |-> last, failed_between |-> FALSE]
    ELSE IF earlier = NoCall THEN earlier
    ELSE [earlier EXCEPT !.failed_between =
             @ \/ (call.status # "ok" /\ call.args.seed # earlier.call.args.seed)]

\* generator.generate_procedural_avatar(**kwargs)
CallAvatar(kwargs, keep) ==
    /\ UNCHANGED <<pal, threads, batch, overlay, orb>>
    /\ \E r \in {generate_procedural_avatar(BindArgs(kwargs), rng)} :
          /\ last' = AvatarCall(BindArgs(kwargs), r)
          /\ rng' = r.rng
          /\ earlier' = Kept(keep, AvatarCall(BindArgs(kwargs), r))

\* generator.generate_icon_set(config)
CallIconSet(config) ==
    /\ UNCHANGED <<pal, threads, batch, overlay, orb>>
    /\ \E r \in {generate_icon_set(config, rng)} :
          /\ last' = [op |-> "generate_icon_set", config |-> config,
                      status |-> r.status, icons |-> r.icons, calls |-> r.calls]
          /\ rng' = r.rng
          /\ earlier' = IF r.calls = << >> THEN earlier ELSE Kept(FALSE, r.calls[1])

Next ==
    \/ \E kwargs \in AvatarKwargs, keep \in KeepChoices : CallAvatar(kwargs, keep)
    \/ \E config \in IconConfigs : CallIconSet(config)

Spec == Init /\ [][Next]_vars

(***************************************************************************)
(* The palette on its own: Init draws the arguments, the action applies    *)
(* generate_color_palette to them.                                         *)
(***************************************************************************)
InitPalette ==
    /\ rng = 0
    /\ last = NoCall
    /\ earlier = NoCall
    /\ threads = [t \in Threads |-> Idle]
    /\ batch = NoBatch
    /\ overlay = NoOverlay
    /\ orb = NoOrb
    /\ pal \in [op : {"generate_color_palette"}, primary : ColorInputs, secondary : ColorInputs,
                season : SeasonInputs, status : {"pending"}, colors : {NoPalette}]

CallPalette ==
    /\ pal.status = "pending"
    /\ \E r \in {generate_color_palette(pal.primary, pal.secondary, pal.season)} :
          pal' = [pal EXCEPT !.status = r.status,
                             !.colors = IF r.status = "ok" THEN r.colors ELSE NoPalette]
    /\ UNCHANGED <<rng, last, earlier, threads, batch, overlay, orb>>

NextPalette == CallPalette

SpecPalette == InitPalette /\ [][NextPalette]_vars

(***************************************************************************)
(* Two generate_procedural_avatar calls in two threads of one process:     *)
(* each thread has its own image and palette, the random module is the     *)
(* process's.  A thread is between two statements of the body or between  *)
(* two random.uniform calls of a drawing loop; the statements and the      *)
(* draws of the two threads interleave in any order.  A thread makes at    *)
(* most MaxCalls calls, and the threads are switched out inside a drawing  *)
(* loop at most MaxSwitches times in all.                                  *)
(***************************************************************************)
MaxCalls == 1

MaxSwitches == 1

ConcKwargs ==
    {[style |-> "abstract", seed |-> v] : v \in {7, 123}}
    \cup {[hair_style |-> 1, seed |-> 7], [hair_style |-> 6],
          [accessories |-> PyList(<<"glasses">>)],
          [primary_color |-> <<"r", "e", "d">>, seed |-> 7]}

InitConc ==
    /\ rng \in RngStates
    /\ last = NoCall
    /\ earlier = NoCall
    /\ pal = NoCall
    /\ threads = [t \in Threads |-> Idle]
    /\ batch = NoBatch
    /\ overlay = NoOverlay
    /\ orb = NoOrb

At(t, label) == threads[t].pc = label

Goto(t, label, ops) ==
    threads' = [threads EXCEPT ![t].pc = label, ![t].ops = threads[t].ops \o ops]

\* random.seed(seed); img = Image.new(...); draw = ImageDraw.Draw(img)
Begin(t, kwargs) ==
    /\ At(t, "idle")
    /\ threads[t].calls < MaxCalls
    /\ rng' = random_seed(rng, BindArgs(kwargs).seed)
    /\ threads' = [threads EXCEPT ![t] =
                      [pc |-> "palette", args |-> BindArgs(kwargs), colors |-> NoPalette,
                       ops |-> << >>, status |-> "running", drawn |-> << >>,
                       calls |-> threads[t].calls + 1, switches |-> threads[t].switches]]
    /\ UNCHANGED <<last, earlier, pal, batch, overlay, orb>>

\* colors = self.generate_color_palette(primary_color, secondary_color, season)
StepPalette(t) ==
    /\ At(t, "palette")
    /\ \E r \in {generate_color_palette(threads[t].args.primary_color,
                                        threads[t].args.secondary_color,
                                        threads[t].args.season)} :
          threads' = [threads EXCEPT
                         ![t].pc = IF r.status = "ok" THEN "background" ELSE "raised",
                         ![t].status = IF r.status = "ok" THEN "running" ELSE r.status,
                         ![t].colors = IF r.status = "ok" THEN r.colors ELSE NoPalette]
    /\ UNCHANGED <<rng, last, earlier, pal, batch, overlay, orb>>

\* the random.uniform calls of the statement the thread is at: 40 in the
\* loops of draw_abstract_background, 60 in draw_hair_pixie, 150 in
\* draw_hair_afro
DrawsOf(t) ==
    IF At(t, "background")
    THEN (IF threads[t].args.style = "abstract" THEN 40 ELSE 0)
    ELSE IF At(t, "hair")
    THEN (IF threads[t].args.hair_style = 1 THEN 60
          ELSE IF threads[t].args.hair_style = 6 THEN 150 ELSE 0)
    ELSE 0

\* the calls of the loop still to be made
Remaining(t) == DrawsOf(t) - Len(threads[t].drawn)

\* draw_background with the values its random.uniform calls returned
BackgroundFrom(size, style, colors, season, noise) ==
    IF style = "abstract"
    THEN AbstractBlobs(size, colors, noise) \o add_seasonal_elements(size, season, colors)
    ELSE draw_background(size, style, colors, season, 0).ops

\* draw_hair with the values its random.uniform calls returned
HairFrom(size, hair_style, colors, drawn) ==
    IF hair_style = 1 THEN PixieCircles(size, size \div 2, colors.dark, colors, drawn)
    ELSE IF hair_style = 6 THEN AfroCircles(size, size \div 2, colors.dark, colors, drawn)
    ELSE draw_hair(size, hair_style, colors, 0).ops

Done(t, label, ops) ==
    threads' = [threads EXCEPT ![t].pc = label, ![t].ops = threads[t].ops \o ops,
                               ![t].drawn = << >>]

\* inside a drawing loop: the thread makes n more random.uniform calls, not
\* the last one, and is switched out
DrawSome(t, n) ==
    /\ At(t, "background") \/ At(t, "hair")
    /\ threads[1].switches + threads[2].switches < MaxSwitches
    /\ n < Remaining(t)
    /\ threads' = [threads EXCEPT ![t].drawn = @ \o RandomDraws(rng, n),
                                  ![t].switches = @ + 1]
    /\ rng' = RandomAfter(rng, n)
    /\ UNCHANGED <<last, earlier, pal, batch, overlay, orb>>

\* self.draw_background(draw, size, style, colors, season): the calls of the
\* loop that remain, and the drawing
StepBackground(t) ==
    /\ At(t, "background")
    /\ Done(t, "face",
            BackgroundFrom(threads[t].args.size, threads[t].args.style, threads[t].colors,
                           threads[t].args.season,
                           threads[t].drawn \o RandomDraws(rng, Remaining(t))))
    /\ rng' = RandomAfter(rng, Remaining(t))
    /\ UNCHANGED <<last, earlier, pal, batch, overlay, orb>>

\* self.draw_face(draw, size, colors, mood)
StepFace(t) ==
    /\ At(t, "face")
    /\ Goto(t, "hair", draw_face(threads[t].args.size, threads[t].colors, threads[t].args.mood))
    /\ UNCHANGED <<rng, last, earlier, pal, batch, overlay, orb>>

\* self.draw_hair(draw, size, hair_style, colors): the calls of the loop
\* that remain, and the drawing
StepHair(t) ==
    /\ At(t, "hair")
    /\ Done(t, "eyes",
            HairFrom(threads[t].args.size, threads[t].args.hair_style, threads[t].colors,
                     threads[t].drawn \o RandomDraws(rng, Remaining(t))))
    /\ rng' = RandomAfter(rng, Remaining(t))
    /\ UNCHANGED <<last, earlier, pal, batch, overlay, orb>>

\* self.draw_eyes(draw, size, eye_style, colors, mood)
StepEyes(t) ==
    /\ At(t, "eyes")
    /\ Goto(t, "mouth", draw_eyes(threads[t].args.size, threads[t].args.eye_style,
                                  threads[t].colors, threads[t].args.mood))
    /\ UNCHANGED <<rng, last, earlier, pal, batch, overlay, orb>>

\* self.draw_mouth(draw, size, colors, mood)
StepMouth(t) ==
    /\ At(t, "mouth")
    /\ Goto(t, "accessories", draw_mouth(threads[t].args.size, threads[t].colors, threads[t].args.mood))
    /\ UNCHANGED <<rng, last, earlier, pal, batch, overlay, orb>>

\* if accessories: self.draw_accessories(draw, size, accessories, colors)
StepAccessories(t) ==
    /\ At(t, "accessories")
    /\ Goto(t, "effects",
            IF Truthy(threads[t].args.accessories)
            THEN draw_accessories(threads[t].args.size, threads[t].args.accessories.items, threads[t].colors)
            ELSE << >>)
    /\ UNCHANGED <<rng, last, earlier, pal, batch, overlay, orb>>

\* img = self.apply_visual_effects(img, style, mood); return img
StepEffects(t) ==
    /\ At(t, "effects")
    /\ threads' = [threads EXCEPT
                      ![t].pc = "returned",
                      ![t].status = "ok",
                      ![t].ops = apply_visual_effects(
                                     [size |-> <<threads[t].args.size, threads[t].args.size>>,
                                      ops |-> threads[t].ops],
                                     threads[t].args.style, threads[t].args.mood).ops]
    /\ UNCHANGED <<rng, last, earlier, pal, batch, overlay, orb>>

\* the caller takes the result (or the exception); the thread is free again
Finish(t) ==
    /\ At(t, "returned") \/ At(t, "raised")
    /\ threads' = [threads EXCEPT ![t] = [Idle EXCEPT !.calls = threads[t].calls,
                                                      !.switches = threads[t].switches]]
    /\ UNCHANGED <<rng, last, earlier, pal, batch, overlay, orb>>

NextConc ==
    \E t \in Threads :
        \/ \E kwargs \in ConcKwargs : Begin(t, kwargs)
        \/ StepPalette(t)
        \/ \E n \in 1..149 : DrawSome(t, n)
        \/ StepBackground(t)
        \/ StepFace(t)
        \/ StepHair(t)
        \/ StepEyes(t)
        \/ StepMouth(t)
        \/ StepAccessories(t)
        \/ StepEffects(t)
        \/ Finish(t)

SpecConc == InitConc /\ [][NextConc]_vars

(***************************************************************************)
(* The batch entrypoint main(): the generator is constructed (which        *)
(* creates the directories), then for each configuration the icon set is   *)
(* rendered, its six PNG files are saved one by one and the manifest is    *)
(* written.  The file system either lets the directories be created or     *)
(* not, and either accepts writes into output/generated and into output    *)
(* or not; an exception ends the run.  main() has a fixed list; the loop   *)
(* is modelled over lists of one or two configurations.                    *)
(***************************************************************************)
BatchPool ==
    {c \in MainConfigurations : c.name \in {"grace_and_grind", "soul_care"}}
    \cup {[name |-> "broken", primary_color |-> <<"r", "e", "d">>],
          [size |-> 256, name |-> "sized"]}

BatchInputs ==
    {<<c>> : c \in BatchPool} \cup {<<c, d>> : c \in BatchPool, d \in BatchPool}

FileSystems == [creatable : BOOLEAN, generated_writable : BOOLEAN, output_writable : BOOLEAN]

\* f"{name}_{size}x{size}.png" in output/generated
PngFile(name, size) == [name |-> name, kind |-> "png", size |-> size]

\* f"ic_launcher_{name}.xml" in output
XmlFile(name) == [name |-> name, kind |-> "xml", size |-> 0]

InitMain ==
    /\ rng = 0
    /\ last = NoCall
    /\ earlier = NoCall
    /\ pal = NoCall
    /\ threads = [t \in Threads |-> Idle]
    /\ overlay = NoOverlay
    /\ orb = NoOrb
    /\ batch \in [pc : {"construct"}, configurations : BatchInputs, i : {1}, icons : {<< >>},
                  saved : {0}, disk : {{}}, rendered : {{}}, status : {"running"},
                  raised_at : {"none"}, fs : FileSystems]

Raised(b, status) == [b EXCEPT !.pc = "raised", !.status = status, !.raised_at = b.pc]

\* AdvancedIconGenerator(): __init__ calls ensure_directories, whose
\* os.makedirs raises when a directory cannot be created
ensure_directories(b) ==
    IF b.fs.creatable THEN [b EXCEPT !.pc = "render"] ELSE Raised(b, "OSError")

\* variant: the files of the name are written although the render failed
main_rendered_SaveAnyway(b, r) ==
    [b EXCEPT !.pc = "save", !.icons = [size \in {48} |-> NoImage], !.saved = 0,
              !.rendered = IF r.status = "ok"
                           THEN @ \cup {b.configurations[b.i].name} ELSE @]

\* icons = generator.generate_icon_set(config): an exception of the render
\* leaves main(); otherwise the name is rendered and saving begins
main_rendered(b, r) ==
    IF r.status = "ok"
    THEN [b EXCEPT !.pc = "save", !.icons = r.icons, !.saved = 0,
                   !.rendered = @ \cup {b.configurations[b.i].name}]
    ELSE Raised(b, r.status)

\* one turn of the loop of save_icon_set: icon.save(filepath, "PNG"); the
\* dict was filled in the order of ICON_SIZES
save_icon_set(b) ==
    IF ~b.fs.generated_writable THEN Raised(b, "OSError")
    ELSE [b EXCEPT !.disk = @ \cup {PngFile(b.configurations[b.i].name, ICON_SIZES[b.saved + 1])},
                   !.saved = @ + 1,
                   !.pc = IF b.saved + 1 = Cardinality(DOMAIN b.icons) THEN "manifest" ELSE "save"]

\* with open(xml_path, 'w') as f: f.write(xml_content); then the next
\* configuration, or the end of main()
write_manifest(b) ==
    IF ~b.fs.output_writable THEN Raised(b, "OSError")
    ELSE [b EXCEPT !.disk = @ \cup {XmlFile(b.configurations[b.i].name)},
                   !.i = @ + 1,
                   !.icons = << >>,
                   !.pc = IF b.i = Len(b.configurations) THEN "done" ELSE "render"]

MainConstruct ==
    /\ batch.pc = "construct"
    /\ batch' = ensure_directories(batch)
    /\ UNCHANGED <<rng, last, earlier, pal, threads, overlay, orb>>

MainRender ==
    /\ batch.pc = "render"
    /\ \E r \in {generate_icon_set(batch.configurations[batch.i], rng)} :
          /\ batch' = main_rendered(batch, r)
          /\ rng' = r.rng
    /\ UNCHANGED <<last, earlier, pal, threads, overlay, orb>>

MainSave ==
    /\ batch.pc = "save"
    /\ batch' = save_icon_set(batch)
    /\ UNCHANGED <<rng, last, earlier, pal, threads, overlay, orb>>

MainManifest ==
    /\ batch.pc = "manifest"
    /\ batch' = write_manifest(batch)
    /\ UNCHANGED <<rng, last, earlier, pal, threads, overlay, orb>>

NextMain == MainConstruct \/ MainRender \/ MainSave \/ MainManifest

SpecMain == InitMain /\ [][NextMain]_vars

(***************************************************************************)
(* The overlay pipeline, icon_pipeline.generate(persona, mood, season,     *)
(* event): a base image with the mood, season and event overlays that      *)
(* exist composited over it.  Run as a script, icon_pipeline.py calls      *)
(* generate with its command-line arguments, then creates the asset        *)
(* folders and six transparent 100x100 assets where they are absent, then  *)
(* calls generate for its two examples.  The file system is the set of     *)
(* asset files with the size of the image each holds, the asset folders,   *)
(* whether the output directory exists, the saves made (in order) and the  *)
(* files the output directory holds; directories can be created, assets    *)
(* are readable images and files can be written.  An image is its size and *)
(* the assets it was composed of.                                          *)
(***************************************************************************)
\* the optional argument event: None or a string
NoEvent == [none |-> TRUE, str |-> ""]

Event(s) == [none |-> FALSE, str |-> s]

\* truth value of "if event"
EventGiven(event) == ~event.none /\ event.str # ""

\* os.path.join(ASSET_BASE_PATH, dir, f"{name}.png")
AssetPath(dir, name) == [dir |-> dir, file |-> name \o ".png"]

\* os.path.exists(path) for an asset
AssetExists(assets, path) == \E a \in assets : a.path = path

\* Image.open(path).convert("RGBA")
OpenAsset(assets, path) ==
    [size |-> (CHOOSE a \in assets : a.path = path).size, layers |-> <<[path |-> path, resized |-> FALSE]>>]

\* lines 36-39: the overlay, resized to the base if its size differs, on top
alpha_composite(final_image, overlay_image) ==
    [size   |-> final_image.size,
     layers |-> Append(final_image.layers,
                       [path    |-> overlay_image.layers[1].path,
                        resized |-> overlay_image.size # final_image.size])]

\* variant: the event overlay is looked for first
overlays_paths_EventFirst(mood, season, event) ==
    (IF EventGiven(event) THEN <<AssetPath("events", event.str)>> ELSE << >>)
    \o <<AssetPath("mood", mood), AssetPath("season", season)>>

\* lines 25-30
overlays_paths(mood, season, event) ==
    <<AssetPath("mood", mood), AssetPath("season", season)>>
    \o (IF EventGiven(event) THEN <<AssetPath("events", event.str)>> ELSE << >>)

\* the loop of lines 32-41 over the paths that remain
RECURSIVE CompositeAll(_, _, _)
CompositeAll(final_image, paths, assets) ==
    IF paths = << >> THEN final_image
    ELSE CompositeAll(IF AssetExists(assets, Head(paths))
                      THEN alpha_composite(final_image, OpenAsset(assets, Head(paths)))
                      ELSE final_image,
                      Tail(paths), assets)

\* f"{persona}_{mood}_{season}{'_' + event if event else ''}.png"
output_filename(persona, mood, season, event) ==
    persona \o "_" \o mood \o "_" \o season
    \o (IF EventGiven(event) THEN "_" \o event.str ELSE "") \o ".png"

\* final_image.save(full_output_path): one more save, and the file of that
\* name in the output directory replaced
SaveOutput(fs, f) ==
    [fs EXCEPT !.saved = Append(@, f),
               !.output = {g \in @ : g.name # f.name} \cup {f}]

\* generate on the file system fs: the status and the file system left
generate(persona, mood, season, event, fs) ==
    IF ~AssetExists(fs.assets, AssetPath("base", persona))
    THEN [status |-> "returned", fs |-> [fs EXCEPT !.out_dir = TRUE]]
    ELSE [status |-> "returned",
          fs     |-> SaveOutput([fs EXCEPT !.out_dir = TRUE],
                                [name  |-> output_filename(persona, mood, season, event),
                                 image |-> CompositeAll(OpenAsset(fs.assets, AssetPath("base", persona)),
                                                        overlays_paths(mood, season, event),
                                                        fs.assets)])]

\* lines 71-78: the dummy assets, all 100x100
dummy_images_info ==
    {[path |-> AssetPath("base", "creator"), size |-> 100],
     [path |-> AssetPath("mood", "high"), size |-> 100],
     [path |-> AssetPath("season", "spring"), size |-> 100],
     [path |-> AssetPath("events", "launch_day"), size |-> 100],
     [path |-> AssetPath("mood", "calm"), size |-> 100],
     [path |-> AssetPath("season", "winter"), size |-> 100]}

\* lines 60-86: the four asset folders made where absent, then every dummy
\* asset whose path does not exist created
create_dummy_assets(fs) ==
    [fs EXCEPT !.folders = @ \cup {"base", "mood", "season", "events"},
               !.assets = @ \cup {d \in dummy_images_info : ~AssetExists(fs.assets, d.path)}]

AssetCandidates ==
    {[path |-> AssetPath("base", "creator"), size |-> 100],
     [path |-> AssetPath("mood", "high"), size |-> 100],
     [path |-> AssetPath("mood", "high"), size |-> 64],
     [path |-> AssetPath("mood", "calm"), size |-> 64],
     [path |-> AssetPath("season", "spring"), size |-> 100],
     [path |-> AssetPath("season", "winter"), size |-> 64],
     [path |-> AssetPath("events", "launch_day"), size |-> 100],
     [path |-> AssetPath("events", "launch_day"), size |-> 64]}

\* the asset directories a run can find: no path holds two files
AssetSets ==
    {S \in SUBSET AssetCandidates : \A a \in S, b \in S : a.path = b.path => a = b}

\* a file lies in a folder that exists; the output directory is empty
OverlayFileSystems ==
    {fs \in [assets : AssetSets, folders : SUBSET {"base", "mood", "season", "events"},
             out_dir : BOOLEAN, saved : {<< >>}, output : {{}}] :
        \A a \in fs.assets : a.path.dir \in fs.folders}

\* no call of generate yet
NoGenerateCall ==
    [persona |-> "", mood |-> "", season |-> "", event |-> NoEvent, assets |-> {}, saves |-> 0]

\* lines 51-55: the arguments of the command line, with their defaults
InitOverlay ==
    /\ rng = 0
    /\ last = NoCall
    /\ earlier = NoCall
    /\ pal = NoCall
    /\ threads = [t \in Threads |-> Idle]
    /\ batch = NoBatch
    /\ orb = NoOrb
    /\ overlay \in [pc : {"called"}, persona : {"creator", "ghost"}, mood : {"high", "calm"},
                    season : {"spring"}, event : {NoEvent, Event(""), Event("launch_day")},
                    fs : OverlayFileSystems, status : {"running"}, call : {NoGenerateCall}]

\* a call of generate at the position at of the script: what it was given,
\* the assets it found and the number of saves made before it are kept
RunGenerate(at, persona, mood, season, event, then) ==
    /\ overlay.pc = at
    /\ \E r \in {generate(persona, mood, season, event, overlay.fs)} :
          overlay' = [overlay EXCEPT
                         !.pc = then, !.status = r.status, !.fs = r.fs,
                         !.call = [persona |-> persona, mood |-> mood, season |-> season,
                                   event |-> event, assets |-> overlay.fs.assets,
                                   saves |-> Len(overlay.fs.saved)]]
    /\ UNCHANGED <<rng, last, earlier, pal, threads, batch, orb>>

\* line 56
CallGenerate ==
    RunGenerate("called", overlay.persona, overlay.mood, overlay.season, overlay.event,
                "dummies")

\* lines 58-86
CreateDummyAssets ==
    /\ overlay.pc = "dummies"
    /\ overlay' = [overlay EXCEPT !.pc = "example1", !.fs = create_dummy_assets(@)]
    /\ UNCHANGED <<rng, last, earlier, pal, threads, batch, orb>>

\* line 90
ExampleWithEvent ==
    RunGenerate("example1", "creator", "high", "spring", Event("launch_day"), "example2")

\* line 91
ExampleWithoutEvent ==
    RunGenerate("example2", "creator", "calm", "winter", NoEvent, "done")

NextOverlay == CallGenerate \/ CreateDummyAssets \/ ExampleWithEvent \/ ExampleWithoutEvent

SpecOverlay == InitOverlay /\ [][NextOverlay]_vars

(***************************************************************************)
(* The mood-orb script generate_mood_orb.py: main() renders one orb and    *)
(* saves it resized into one directory per density.  The random module of  *)
(* the process is not seeded.  The file system may make the mkdir or the   *)
(* save of one density raise; main() turns every exception into exit       *)
(* status 2.                                                               *)
(***************************************************************************)
MOOD_GRADIENTS ==
    [calm        |-> <<Hex6("B", "0", "E", "0", "E", "6"), Hex6("D", "8", "B", "F", "D", "8")>>,
     focused     |-> <<Hex6("0", "0", "C", "E", "D", "1"), Hex6("4", "6", "8", "2", "B", "4")>>,
     energized   |-> <<Hex6("F", "F", "A", "5", "0", "0"), Hex6("F", "F", "4", "5", "0", "0")>>,
     reflective  |-> <<Hex6("9", "3", "7", "0", "D", "B"), Hex6("4", "B", "0", "0", "8", "2")>>,
     guarded     |-> <<Hex6("5", "5", "6", "B", "2", "F"), Hex6("2", "F", "4", "F", "4", "F")>>,
     celebratory |-> <<Hex6("F", "F", "D", "7", "0", "0"), Hex6("F", "F", "6", "9", "B", "4")>>,
     hopeful     |-> <<Hex6("A", "D", "F", "F", "2", "F"), Hex6("4", "0", "E", "0", "D", "0")>>,
     melancholy  |-> <<Hex6("7", "0", "8", "0", "9", "0"), Hex6("2", "E", "2", "E", "2", "E")>>,
     playful     |-> <<Hex6("F", "F", "B", "6", "C", "1"), Hex6("F", "F", "E", "4", "B", "5")>>,
     resolute    |-> <<Hex6("8", "B", "0", "0", "0", "0"), Hex6("0", "0", "0", "0", "8", "B")>>]

\* DENSITIES in the order of the dict
DENSITIES ==
    <<[dpi |-> "mipmap-mdpi", size |-> 48], [dpi |-> "mipmap-hdpi", size |-> 72],
      [dpi |-> "mipmap-xhdpi", size |-> 96], [dpi |-> "mipmap-xxhdpi", size |-> 144],
      [dpi |-> "mipmap-xxxhdpi", size |-> 192]>>

\* sys.argv[1] if len(sys.argv) > 1 else "calm" (argv without the script name)
ArgMood(argv) == IF Len(argv) > 0 THEN argv[1] ELSE "calm"

\* variant: an unknown mood gets the gradient of focused
gradient_of_FocusedDefault(mood) ==
    IF mood \in DOMAIN MOOD_GRADIENTS THEN MOOD_GRADIENTS[mood] ELSE MOOD_GRADIENTS["focused"]

\* MOOD_GRADIENTS.get(mood, MOOD_GRADIENTS["calm"])
gradient_of(mood) ==
    IF mood \in DOMAIN MOOD_GRADIENTS THEN MOOD_GRADIENTS[mood] ELSE MOOD_GRADIENTS["calm"]

\* create_glowing_mist_orb with its default glow_strength 0.6 and
\* mist_density 0.35: the gradient core of radius int(size / 2.2) (no
\* ellipse at radius 0), four glow rings of alpha int(255 * 0.6 / (i + 1)),
\* then int(size * 0.35) mist particles of three random.random() draws each.
\* Image.new refuses a negative size; hex_to_rgb raises ValueError on the
\* start colour in the first loop that runs, and on the end colour in the
\* gradient loop, before anything is drawn from the generator
create_glowing_mist_orb(start_hex, end_hex, size, gen) ==
    LET center == size \div 2
        radius == PyIntQuot(size, Flt(22, 10))
        alphas == <<153, 76, 51, 38>>
        mist_particles == PyInt(FMul(size, Flt(35, 100)))
    IN  IF size < 0 \/ ~hex_to_rgb(start_hex).ok \/ (radius > 0 /\ ~hex_to_rgb(end_hex).ok)
        THEN [status |-> "ValueError", image |-> NoImage, rng |-> gen]
        ELSE
        [status |-> "ok",
         image |->
            [size |-> <<size, size>>,
             ops  |-> (IF radius > 0
                       THEN <<Op("orb", "radial_gradient", hex_to_rgb(start_hex).rgb,
                                 <<center, radius>> \o hex_to_rgb(end_hex).rgb)>>
                       ELSE << >>)
                      \o [k \in 1..4 |->
                            Op("orb", "glow", Rgba(hex_to_rgb(start_hex).rgb, alphas[k]),
                               <<center, radius + (k - 1) * 8, 6 + (k - 1) * 4>>)]
                      \o [k \in 1..mist_particles |->
                            Op("orb", "mist", <<255, 255, 255>>,
                               RandomDraws(RandomAfter(gen, 3 * (k - 1)), 3))]],
         rng |-> RandomAfter(gen, 3 * mist_particles)]

\* sys.exit(2) in the handler of main()
OrbFailed(o) == [o EXCEPT !.pc = "exited", !.exit = 2]

\* lines 69-75: the mood, its gradient, the orb
orb_rendered(o, r) ==
    IF r.status # "ok" THEN OrbFailed([o EXCEPT !.mood = ArgMood(o.argv)])
    ELSE [o EXCEPT !.pc = "save", !.mood = ArgMood(o.argv), !.image = r.image,
                   !.renders = @ + 1]

\* one turn of the loop of lines 76-82: mkdir, resize, save; after the last
\* turn main() returns and the process exits with 0
orb_saved(o) ==
    IF o.fails.at = o.k THEN OrbFailed(o)
    ELSE [o EXCEPT !.files = Append(@, [dir   |-> DENSITIES[o.k].dpi,
                                        name  |-> "ic_launcher.png",
                                        image |-> Resize(o.image, DENSITIES[o.k].size)]),
                   !.k = @ + 1,
                   !.pc = IF o.k = Len(DENSITIES) THEN "exited" ELSE "save",
                   !.exit = IF o.k = Len(DENSITIES) THEN 0 ELSE @]

OrbArgvs == {<< >>, <<"calm">>, <<"focused">>, <<"resolute">>, <<"sleepy", "energized">>}

\* at = 0: nothing raises; otherwise the call that raises in turn at
OrbFailures ==
    {[at |-> 0, call |-> "none"]}
    \cup [at : 1..Len(DENSITIES), call : {"mkdir", "save"}]

InitOrb ==
    /\ rng \in RngStates
    /\ last = NoCall
    /\ earlier = NoCall
    /\ pal = NoCall
    /\ threads = [t \in Threads |-> Idle]
    /\ batch = NoBatch
    /\ overlay = NoOverlay
    /\ orb \in [pc : {"start"}, argv : OrbArgvs, fails : OrbFailures, mood : {""},
                image : {NoImage}, renders : {0}, k : {1}, files : {<< >>}, exit : {-1}]

OrbRender ==
    /\ orb.pc = "start"
    /\ \E r \in {create_glowing_mist_orb(gradient_of(ArgMood(orb.argv))[1],
                                         gradient_of(ArgMood(orb.argv))[2], 512, rng)} :
          /\ orb' = orb_rendered(orb, r)
          /\ rng' = r.rng
    /\ UNCHANGED <<last, earlier, pal, threads, batch, overlay>>

OrbSave ==
    /\ orb.pc = "save"
    /\ orb' = orb_saved(orb)
    /\ UNCHANGED <<rng, last, earlier, pal, threads, batch, overlay>>

NextOrb == OrbRender \/ OrbSave

SpecOrb == InitOrb /\ [][NextOrb]_vars

(***************************************************************************)
(* Properties.                                                             *)
(***************************************************************************)
\* the generate_procedural_avatar invocations of the most recent call
Renders ==
    IF last.op = "generate_procedural_avatar" THEN {last}
    ELSE IF last.op = "generate_icon_set" THEN {last.calls[i] : i \in 1..Len(last.calls)}
    ELSE {}

OkRenders == {c \in Renders : c.status = "ok"}

IconSetOk == last.op = "generate_icon_set" /\ last.status = "ok"

PaintedLayers == {"background", "seasonal", "face", "hair", "eyes", "mouth", "accessories"}

\* the drawing calls of a display list, without filters and resamplings
DrawOps(ops) == SelectSeq(ops, LAMBDA o : o.layer \in PaintedLayers)

LayerOps(ops, layer) == SelectSeq(ops, LAMBDA o : o.layer = layer)

Rank(order, layer) == CHOOSE i \in 1..Len(order) : order[i] = layer

\* the entries of a display list follow the given order of layers
InLayerOrder(ops, order) ==
    \A i \in 1..(Len(ops) - 1) : Rank(order, ops[i].layer) <= Rank(order, ops[i + 1].layer)

ClaimedOrder == <<"background", "face", "hair", "eyes", "mouth", "accessories", "seasonal">>

CodeOrder == <<"background", "seasonal", "face", "hair", "eyes", "mouth", "accessories">>

BothColorsWellFormed(args) ==
    WellFormedHex(args.primary_color) /\ WellFormedHex(args.secondary_color)

\* C1 as stated: in every render the layers are painted in the order
\* background, face, hair, eyes, mouth, accessories, seasonal decoration,
\* so that nothing is painted after the seasonal decoration.
C1_SeasonalLast ==
    \A c \in OkRenders : InLayerOrder(DrawOps(c.image.ops), ClaimedOrder)

\* C1 amended: in every render the layers are painted in the order
\* background, seasonal decoration, face, hair, eyes, mouth, accessories;
\* accessories only if requested; the decoration of a recognised season is
\* drawn as the last step of the background, before the face.
C1_SeasonalAfterBackground ==
    \A c \in OkRenders :
        /\ InLayerOrder(DrawOps(c.image.ops), CodeOrder)
        /\ \A l \in {"face", "hair", "eyes", "mouth"} : LayerOps(c.image.ops, l) # << >>
        /\ LayerOps(c.image.ops, "accessories") # << >> => Truthy(c.args.accessories)
        /\ c.args.season \in Seasons => LayerOps(c.image.ops, "seasonal") # << >>

C1_Witness ==
    \E c \in OkRenders :
        /\ c.args.season \in Seasons
        /\ \A l \in PaintedLayers : LayerOps(c.image.ops, l) # << >>

\* C2: a render with the arguments of an earlier render returns the
\* canvas the earlier render returned, whatever calls were made in between.
C2_Deterministic ==
    \A c \in Renders :
        (earlier # NoCall /\ c.args = earlier.call.args)
            => (c.status = earlier.call.status /\ c.image = earlier.call.image)

C2_Witness ==
    \E c \in Renders :
        /\ earlier # NoCall
        /\ c.args = earlier.call.args
        /\ DrawsRandom(c.args)
        /\ earlier.failed_between

\* C3 as stated: a render that ran concurrently with another render returns
\* the canvas it returns when it runs alone.
C3_ConcurrentAsAlone ==
    \A t \in Threads :
        At(t, "returned") => threads[t].ops = generate_procedural_avatar(threads[t].args, 0).image.ops

PaletteDone == pal.op = "generate_color_palette" /\ pal.status # "pending"

\* C4: for well-formed colours and any season the palette has exactly the
\* eight keys and every channel of every entry is in 0..255.
C4_PaletteInvariant ==
    (PaletteDone /\ WellFormedHex(pal.primary) /\ WellFormedHex(pal.secondary))
        => /\ pal.status = "ok"
           /\ DOMAIN pal.colors = PaletteKeys
           /\ \A k \in PaletteKeys :
                 /\ Len(pal.colors[k]) = 3
                 /\ \A i \in 1..3 : pal.colors[k][i] \in 0..255

\* a well-formed palette call whose highlight was clamped at 255
C4_Witness ==
    /\ PaletteDone
    /\ WellFormedHex(pal.primary) /\ WellFormedHex(pal.secondary)
    /\ pal.status = "ok"
    /\ pal.colors.highlight[1] = 255
    /\ pal.colors.secondary[1] < 255

\* C5 as stated: a colour string that is not well-formed makes
\* generate_color_palette fail with a parse error.
C5_MalformedRejected ==
    (PaletteDone /\ (~WellFormedHex(pal.primary) \/ ~WellFormedHex(pal.secondary)))
        => pal.status = "ValueError"

\* C6: a render with a hair_style outside 0..8 succeeds and is the render
\* with hair_style 0 and all other arguments equal.
C6_HairFallback ==
    \A c \in Renders :
        (c.args.hair_style \notin 0..8 /\ BothColorsWellFormed(c.args))
            => /\ c.status = "ok"
               /\ c.image = generate_procedural_avatar([c.args EXCEPT !.hair_style = 0], rng).image

C6_Witness == \E c \in OkRenders : c.args.hair_style \in {-1, 9, 99}

\* C7: a render with an unknown mood succeeds; its face is drawn with scale
\* 1.0 and offset 0, its mouth from the point list of confident, and no
\* saturation filter is applied.
C7_MoodFallback ==
    \A c \in Renders :
        (c.args.mood \notin KnownMoods /\ BothColorsWellFormed(c.args))
            => /\ c.status = "ok"
               /\ LayerOps(c.image.ops, "face")
                     = FaceShapes(c.args.size, c.colors, [scale |-> 100, y_offset |-> 0])
               /\ LayerOps(c.image.ops, "mouth")
                     = MouthShapes(c.colors, MouthPointsOf(c.args.size, "confident"))
               /\ \A i \in 1..Len(c.image.ops) : c.image.ops[i].shape # "Color"

C7_Witness == \E c \in OkRenders : c.args.mood \notin KnownMoods

\* C8: a render with an unknown season draws no seasonal decoration, raises
\* no error, and its light colour is the primary colour scaled by 1.0.
C8_SeasonFallback ==
    \A c \in Renders :
        (c.args.season \notin Seasons /\ BothColorsWellFormed(c.args))
            => /\ c.status = "ok"
               /\ LayerOps(c.image.ops, "seasonal") = << >>
               /\ c.colors.light = adjust_brightness(c.colors.primary, Flt(1, 1))

C8_Witness ==
    \E c \in OkRenders : c.args.season \notin Seasons /\ LayerOps(c.image.ops, "background") # << >>

\* C9: the 512 entry of an icon set is the base render itself, and every
\* other entry is the base render with exactly one resampling applied.
C9_ResizeConsistency ==
    IconSetOk =>
        /\ Len(last.calls) = 1
        /\ last.icons[512] = last.calls[1].image
        /\ \A size \in (DOMAIN last.icons) \ {512} :
              last.icons[size].ops
                  = Append(last.calls[1].image.ops, Op("resize", "LANCZOS", << >>, <<size, size>>))

C9_Witness == IconSetOk /\ 48 \in DOMAIN last.icons /\ 512 \in DOMAIN last.icons

\* C10: a successful generate_icon_set returns exactly six entries keyed by
\* 48, 72, 96, 144, 192 and 512, each a square image of the side of its
\* key, and makes exactly one generate_procedural_avatar call.
C10_SixSquareEntries ==
    IconSetOk =>
        /\ DOMAIN last.icons = {48, 72, 96, 144, 192, 512}
        /\ Cardinality(DOMAIN last.icons) = 6
        /\ \A size \in DOMAIN last.icons : last.icons[size].size = <<size, size>>
        /\ Len(last.calls) = 1
        /\ last.calls[1].op = "generate_procedural_avatar"

C10_Witness == IconSetOk /\ Len(last.calls) = 1 /\ "name" \in DOMAIN last.config

\* C11: keys of a config outside the ten recognised options are ignored by
\* generate_icon_set: the outcome and the icons are those of the config
\* without these keys, and for a config whose recognised part succeeds the
\* extra keys cause no error.
C11_UnknownKeysIgnored ==
    (last.op = "generate_icon_set" /\ ~(DOMAIN last.config \subseteq ParamNames))
        => \E ref \in {generate_icon_set(Restrict(last.config, ParamNames), rng)} :
              /\ last.status = ref.status
              /\ last.icons = ref.icons

C11_Witness ==
    /\ IconSetOk
    /\ "name" \in DOMAIN last.config
    /\ (DOMAIN last.config) \cap ParamNames # {}
    /\ last.icons = generate_icon_set(Restrict(last.config, ParamNames), rng).icons

\* C12 as stated: generate_icon_set returns an icon set for every config
\* made of recognised options with valid values, the key size included.
C12_RecognisedOptionsAccepted ==
    (/\ last.op = "generate_icon_set"
     /\ DOMAIN last.config \subseteq ParamNames
     /\ BothColorsWellFormed(BindArgs(last.config)))
        => last.status = "ok"

FilesOf(name) == {f \in batch.disk : f.name = name}

\* C13: in main() every file on disk belongs to a name whose
\* generate_icon_set call has completed, and after a failed render of a name
\* there is no file of that name.
C13_WriteAfterRender ==
    batch.pc # "none" =>
        /\ \A f \in batch.disk : f.name \in batch.rendered
        /\ (batch.pc = "raised" /\ batch.raised_at = "render")
              => FilesOf(batch.configurations[batch.i].name) = {}

\* the render of the second name failed after the files of the first name
\* were written
C13_Witness ==
    /\ batch.pc = "raised"
    /\ batch.raised_at = "render"
    /\ batch.i = 2
    /\ batch.disk # {}

\* C17 as stated: a failure to create or to write the output directory is
\* raised only in a step that writes files, after the icon set of the name
\* at hand was rendered, and no configuration is left unrendered by it.
C17_ResourceErrorAfterRender ==
    (batch.pc = "raised" /\ batch.status = "OSError")
        => /\ batch.raised_at \in {"save", "manifest"}
           /\ batch.configurations[batch.i].name \in batch.rendered

\* the accessories asked of a render, as a set (none when absent)
Asked(c) == {c.args.accessories.items[i] : i \in 1..Len(c.args.accessories.items)}

CountShape(ops, shape) == Len(SelectSeq(ops, LAMBDA o : o.shape = shape))

\* C14: in every successful render the glasses pair is drawn exactly when
\* 'glasses' is among the accessories, the earring pair exactly when
\* 'earrings' is, the necklace exactly when 'necklace' is, each whatever the
\* other two; with no accessories none of them is drawn.
C14_AccessoriesByMembership ==
    \A c \in OkRenders :
        /\ CountShape(c.image.ops, "glasses_lens") = IF "glasses" \in Asked(c) THEN 2 ELSE 0
        /\ CountShape(c.image.ops, "glasses_bridge") = IF "glasses" \in Asked(c) THEN 1 ELSE 0
        /\ CountShape(c.image.ops, "earring") = IF "earrings" \in Asked(c) THEN 2 ELSE 0
        /\ CountShape(c.image.ops, "necklace_pendant") = IF "necklace" \in Asked(c) THEN 1 ELSE 0
        /\ CountShape(c.image.ops, "necklace_chain") = IF "necklace" \in Asked(c) THEN 11 ELSE 0
        /\ Asked(c) = {} => LayerOps(c.image.ops, "accessories") = << >>

\* a render asked for ['glasses', 'earrings'] holds both pairs and no necklace
C14_Witness ==
    \E c \in OkRenders :
        /\ c.args.accessories.items = <<"glasses", "earrings">>
        /\ CountShape(c.image.ops, "glasses_lens") = 2
        /\ CountShape(c.image.ops, "earring") = 2
        /\ CountShape(c.image.ops, "necklace_pendant") = 0

\* the filters the style and the mood call for, in the order claimed
StyleFilter(style) ==
    CASE style = "geometric" -> <<"SHARPEN">>
      [] style = "abstract"  -> <<"GaussianBlur">>
      [] style = "artistic"  -> <<"Contrast">>
      [] OTHER               -> << >>

MoodFilter(mood) ==
    CASE mood = "creative" -> <<<<"Color", 115>>>>
      [] mood = "calm"     -> <<<<"Color", 90>>>>
      [] OTHER             -> << >>

EffectNames(ops) ==
    [i \in 1..Len(LayerOps(ops, "effects")) |-> LayerOps(ops, "effects")[i].shape]

\* C15: the filters of a render are at most one style filter (sharpen for
\* geometric, blur for abstract, contrast for artistic) followed by at most
\* one mood filter (saturation 1.15 for creative, 0.9 for calm), the style
\* filter first, and no style or mood makes a render with well-formed
\* colours fail.
C15_StyleThenMood ==
    \A c \in Renders :
        /\ BothColorsWellFormed(c.args) => c.status = "ok"
        /\ c.status = "ok" =>
              /\ EffectNames(c.image.ops)
                    = StyleFilter(c.args.style)
                      \o [i \in 1..Len(MoodFilter(c.args.mood)) |-> MoodFilter(c.args.mood)[i][1]]
              /\ \A i \in 1..Len(LayerOps(c.image.ops, "effects")) :
                    LayerOps(c.image.ops, "effects")[i].shape = "Color"
                        => LayerOps(c.image.ops, "effects")[i].geom = <<MoodFilter(c.args.mood)[1][2]>>

\* a render with both a style filter and a mood filter
C15_Witness ==
    \E c \in OkRenders :
          /\ c.args.style = "abstract"
          /\ c.args.mood = "calm"
          /\ EffectNames(c.image.ops) = <<"GaussianBlur", "Color">>

\* the palette call of Example 1: '#8b5cf6', '#f59e0b', 'summer'
Example1Done ==
    /\ PaletteDone
    /\ pal.primary = Hex6("8", "b", "5", "c", "f", "6")
    /\ pal.secondary = Hex6("f", "5", "9", "e", "0", "b")
    /\ pal.season = "summer"

\* C16 as stated: for '#8b5cf6', '#f59e0b' and 'summer' the accent is
\* (171,114,175).
C16_AccentAsStated ==
    Example1Done => pal.status = "ok" /\ pal.colors.accent = <<171, 114, 175>>

\* C16: for '#8b5cf6', '#f59e0b' and 'summer' the accent, int(p*0.7 + s*0.3)
\* per channel of (139,92,246) and (245,158,11), is (170,111,175): the sums
\* 170.8, 111.8 and 175.5 are truncated.
C16_AccentExample ==
    Example1Done => pal.status = "ok" /\ pal.colors.accent = <<170, 111, 175>>

C16_Witness ==
    /\ Example1Done
    /\ pal.colors.primary = <<139, 92, 246>>
    /\ pal.colors.secondary = <<245, 158, 11>>
    /\ pal.colors.accent[2] = 111

\* the reference palette: the colour '#rrggbb' or 'rrggbb' as its three
\* bytes, scaling as the truncated product clamped to 0..255
RefDigits(c) == IF Head(c) = "#" THEN Tail(c) ELSE c

RefParsed(c) ==
    [k \in 1..3 |-> 16 * HexVal(RefDigits(c)[2 * k - 1]) + HexVal(RefDigits(c)[2 * k])]

RefScale(rgb, f) ==
    [k \in 1..3 |->
        IF PyInt(FMul(rgb[k], f)) > 255 THEN 255
        ELSE IF PyInt(FMul(rgb[k], f)) < 0 THEN 0
        ELSE PyInt(FMul(rgb[k], f))]

RefBrightness(season) ==
    CASE season = "spring" -> Flt(11, 10)
      [] season = "summer" -> Flt(12, 10)
      [] season = "autumn" -> Flt(9, 10)
      [] season = "winter" -> Flt(85, 100)
      [] OTHER             -> Flt(1, 1)

\* C18: for well-formed colours and any season the palette is the
\* reference: primary and secondary parsed, accent the 0.7/0.3 blend of
\* them truncated, light the primary scaled by the season's brightness,
\* dark the primary scaled by 0.7, highlight the secondary scaled by 1.3,
\* shadow (50,50,50) and background (240,240,245).
C18_PaletteReference ==
    (PaletteDone /\ WellFormedHex(pal.primary) /\ WellFormedHex(pal.secondary))
        => /\ pal.status = "ok"
           /\ pal.colors =
                 [primary    |-> RefParsed(pal.primary),
                  secondary  |-> RefParsed(pal.secondary),
                  accent     |-> [k \in 1..3 |->
                                    PyInt(FAdd(FMul(RefParsed(pal.primary)[k], Flt(7, 10)),
                                               FMul(RefParsed(pal.secondary)[k], Flt(3, 10))))],
                  light      |-> RefScale(RefParsed(pal.primary), RefBrightness(pal.season)),
                  dark       |-> RefScale(RefParsed(pal.primary), Flt(7, 10)),
                  highlight  |-> RefScale(RefParsed(pal.secondary), Flt(13, 10)),
                  shadow     |-> <<50, 50, 50>>,
                  background |-> <<240, 240, 245>>]

\* a winter palette whose light entry differs from the primary and whose
\* highlight was clamped
C18_Witness ==
    /\ PaletteDone
    /\ WellFormedHex(pal.primary)
    /\ WellFormedHex(pal.secondary)
    /\ pal.status = "ok"
    /\ pal.season = "winter"
    /\ pal.colors.light # pal.colors.primary
    /\ pal.colors.light = RefScale(RefParsed(pal.primary), Flt(85, 100))
    /\ 255 \in {pal.colors.highlight[k] : k \in 1..3}

\* the number of points of the list a mood selects: 2 for focused, 4 for
\* creative, 3 for the others and for an unknown mood (the confident list)
MouthPointCount(mood) ==
    CASE mood = "focused"  -> 2
      [] mood = "creative" -> 4
      [] OTHER             -> 3

MouthOf(c) == LayerOps(c.image.ops, "mouth")

\* C19 as stated: the mouth is a stroked line exactly when the mood's list
\* has 2 points and a filled polygon for the 3-point and the 4-point lists.
C19_PolygonUnlessTwoPoints ==
    \A c \in OkRenders :
        /\ Len(MouthOf(c)) = 1
        /\ MouthOf(c)[1].shape = IF MouthPointCount(c.args.mood) = 2 THEN "line" ELSE "polygon"

\* C19: the mouth is one shape in the accent colour through the points of
\* the mood's list (the confident list for an unknown mood): a line of
\* width 3 for the 2-point list, a filled polygon for a 3-point list, and a
\* line of width 2 for the 4-point list of creative.
C19_MouthByPointCount ==
    \A c \in OkRenders :
        /\ Len(MouthOf(c)) = 1
        /\ MouthOf(c)[1].color = c.colors.accent
        /\ MouthPointCount(c.args.mood) = 2
              => /\ MouthOf(c)[1].shape = "line"
                 /\ Len(MouthOf(c)[1].geom) = 5
                 /\ MouthOf(c)[1].geom[1] = 3
        /\ MouthPointCount(c.args.mood) = 3
              => /\ MouthOf(c)[1].shape = "polygon"
                 /\ Len(MouthOf(c)[1].geom) = 6
        /\ MouthPointCount(c.args.mood) = 4
              => /\ MouthOf(c)[1].shape = "line"
                 /\ Len(MouthOf(c)[1].geom) = 9
                 /\ MouthOf(c)[1].geom[1] = 2

\* a creative render, whose four points are joined by a line of width 2
C19_Witness ==
    \E c \in OkRenders :
        /\ c.args.mood = "creative"
        /\ MouthOf(c)[1].shape = "line"
        /\ MouthOf(c)[1].geom[1] = 2

\* the random values an entry of the display list was drawn with: the
\* eight noise values of a blob of the abstract background, the angle,
\* distance and radius of a circle of pixie (1) or afro (6) hair
DrawnBy(c, o) ==
    IF o.layer = "background" /\ c.args.style = "abstract" /\ o.shape = "polygon"
    THEN SubSeq(o.geom, 3, 10)
    ELSE IF o.layer = "hair" /\ c.args.hair_style = 1 THEN SubSeq(o.geom, 3, 5)
    ELSE IF o.layer = "hair" /\ c.args.hair_style = 6 THEN SubSeq(o.geom, 4, 6)
    ELSE << >>

\* the random values of a render in the order of its display list
Drawn(c) == Flatten([i \in 1..Len(c.image.ops) |-> DrawnBy(c, c.image.ops[i])])

\* the number of draws the request calls for
DrawCount(args) ==
    (IF args.style = "abstract" THEN 40 ELSE 0)
    + (IF args.hair_style = 1 THEN 60 ELSE IF args.hair_style = 6 THEN 150 ELSE 0)

\* C20: the random values of a render, in display-list order (background
\* before hair), are the first values of the one stream started by
\* random.seed(seed): the generator is seeded before the first draw and not
\* again, and after the render it stands where that stream was left.
C20_SeededOnceBeforeDrawing ==
    \A c \in OkRenders :
        /\ Drawn(c) = RandomDraws(SeedState(c.args.seed), DrawCount(c.args))
        /\ rng = RandomAfter(SeedState(c.args.seed), DrawCount(c.args))

\* an abstract background followed by pixie hair: 40 draws, then 60
C20_Witness ==
    \E c \in OkRenders :
        /\ c.args.style = "abstract"
        /\ c.args.hair_style = 1
        /\ Len(Drawn(c)) = 100
        /\ Len(LayerOps(c.image.ops, "hair")) = 20

\* a request that asks for no routine that draws from the random stream
SeedFree(args) == args.style # "abstract" /\ args.hair_style \notin {1, 6}

\* the two requests differ at most in the seed
SameButSeed(a, b) == [a EXCEPT !.seed = 0] = [b EXCEPT !.seed = 0]

\* C21: a render whose style is not abstract and whose hair is neither
\* pixie (1) nor afro (6) returns the same result for every seed: it equals
\* a kept earlier render of the same request with another seed, and the
\* render of the same request with each of the modelled seeds.
C21_SeedNonInterference ==
    \A c \in Renders :
        SeedFree(c.args) =>
            /\ (earlier # NoCall /\ SameButSeed(c.args, earlier.call.args))
                  => (c.status = earlier.call.status /\ c.image = earlier.call.image)
            /\ \A v \in SeedInputs :
                  \E r \in {generate_procedural_avatar([c.args EXCEPT !.seed = v], rng)} :
                      r.status = c.status /\ r.image = c.image

\* two renders of the default request kept and repeated with a seed that
\* puts the generator in another state
C21_Witness ==
    \E c \in OkRenders :
        /\ SeedFree(c.args)
        /\ earlier # NoCall
        /\ SameButSeed(c.args, earlier.call.args)
        /\ SeedState(c.args.seed) # SeedState(earlier.call.args.seed)
        /\ c.image = earlier.call.image

\* a list with the members S among the recognised names, in the order
\* necklace, earrings, glasses, with an unrecognised name in front and the
\* glasses repeated
Reordered(S) ==
    <<"hat">>
    \o (IF "necklace" \in S THEN <<"necklace">> ELSE << >>)
    \o (IF "earrings" \in S THEN <<"earrings">> ELSE << >>)
    \o (IF "glasses" \in S THEN <<"glasses", "glasses">> ELSE << >>)

AccessoryShapes(ops) ==
    [i \in 1..Len(LayerOps(ops, "accessories")) |-> LayerOps(ops, "accessories")[i].shape]

\* the place of a shape in the order glasses, earrings, necklace
ShapeRank(shape) ==
    CASE shape = "glasses_lens"     -> 1
      [] shape = "glasses_bridge"   -> 2
      [] shape = "earring"          -> 3
      [] shape = "necklace_chain"   -> 4
      [] shape = "necklace_pendant" -> 5

\* C22: the accessory draw steps of a render are those of the render whose
\* list holds the same recognised names in another order, with a repeat and
\* an unrecognised name, neither render failing on account of the list; the
\* steps come in the order glasses, earrings, necklace.
C22_AccessoriesBySet ==
    \A c \in Renders :
        \E r \in {generate_procedural_avatar(
                     [c.args EXCEPT !.accessories =
                         PyList(Reordered(Asked(c) \cap {"glasses", "earrings", "necklace"}))],
                     rng)} :
            /\ r.status = c.status
            /\ c.status = "ok" =>
                  /\ LayerOps(r.image.ops, "accessories") = LayerOps(c.image.ops, "accessories")
                  /\ \A i \in 1..Len(AccessoryShapes(c.image.ops)) :
                        \A j \in i..Len(AccessoryShapes(c.image.ops)) :
                            ShapeRank(AccessoryShapes(c.image.ops)[i])
                                <= ShapeRank(AccessoryShapes(c.image.ops)[j])

\* a render asked for necklace, hat, glasses, necklace: the glasses come
\* first, then one necklace
C22_Witness ==
    \E c \in OkRenders :
        /\ c.args.accessories.items = <<"necklace", "hat", "glasses", "necklace">>
        /\ AccessoryShapes(c.image.ops)[1] = "glasses_lens"
        /\ Len(AccessoryShapes(c.image.ops)) = 15

\* the overlays the most recent call of generate was asked for: mood,
\* season, and the event if one is given
AskedOverlays ==
    <<[dir |-> "mood", file |-> overlay.call.mood \o ".png"],
      [dir |-> "season", file |-> overlay.call.season \o ".png"]>>
    \o (IF overlay.call.event.none \/ overlay.call.event.str = "" THEN << >>
        ELSE <<[dir |-> "events", file |-> overlay.call.event.str \o ".png"]>>)

\* the asset existed when the most recent call was made
OnDisk(path) == \E a \in overlay.call.assets : a.path = path

BaseAsset == [dir |-> "base", file |-> overlay.call.persona \o ".png"]

\* the saves of the most recent call
SavedByCall == SubSeq(overlay.fs.saved, overlay.call.saves + 1, Len(overlay.fs.saved))

\* C23: every call of generate returns without raising; with the base image
\* missing it saves nothing; otherwise it saves exactly one file, named
\* {persona}_{mood}_{season}[_{event}].png, whose image is the base with
\* the existing ones of the mood, season and event overlays over it in that
\* order, the missing ones left out.
C23_OverlayPipeline ==
    overlay.pc \in {"dummies", "example1", "example2", "done"} =>
        /\ overlay.status = "returned"
        /\ ~OnDisk(BaseAsset) => SavedByCall = << >>
        /\ OnDisk(BaseAsset) =>
              /\ Len(SavedByCall) = 1
              /\ SavedByCall[1] \in overlay.fs.output
              /\ SavedByCall[1].name
                    = IF overlay.call.event.none \/ overlay.call.event.str = ""
                      THEN overlay.call.persona \o "_" \o overlay.call.mood \o "_"
                           \o overlay.call.season \o ".png"
                      ELSE overlay.call.persona \o "_" \o overlay.call.mood \o "_"
                           \o overlay.call.season \o "_" \o overlay.call.event.str \o ".png"
              /\ [i \in 1..Len(SavedByCall[1].image.layers) |->
                     SavedByCall[1].image.layers[i].path]
                    = <<BaseAsset>> \o SelectSeq(AskedOverlays, OnDisk)

\* the call of the command line, with an event, whose season and event
\* overlays exist and whose mood overlay is missing
C23_Witness ==
    /\ overlay.pc = "dummies"
    /\ OnDisk(BaseAsset)
    /\ ~overlay.call.event.none
    /\ ~OnDisk(AskedOverlays[1])
    /\ Len(SavedByCall) = 1
    /\ SavedByCall[1].name = "creator_calm_spring_launch_day.png"
    /\ Len(SavedByCall[1].image.layers) = 3
    /\ SavedByCall[1].image.layers[3].path.dir = "events"

\* the gradients of the moods given to the script, as RGB triples; any
\* other mood has the gradient of calm
RefGradient(mood) ==
    CASE mood = "focused"  -> <<<<0, 206, 209>>, <<70, 130, 180>>>>
      [] mood = "resolute" -> <<<<139, 0, 0>>, <<0, 0, 139>>>>
      [] OTHER             -> <<<<176, 224, 230>>, <<216, 191, 216>>>>

\* the mood given on the command line, calm when none is given
GivenMood == IF orb.argv = << >> THEN "calm" ELSE Head(orb.argv)

\* C24: the script renders at most one orb, of size 512 and with the
\* gradient of the given mood or of calm for a mood without gradient; when
\* nothing raises it exits with the five ic_launcher.png files, one per
\* density at 48, 72, 96, 144 and 192, each the orb itself resized once; when
\* a step raises it exits with status 2.
C24_MoodOrb ==
    /\ orb.pc # "none" => orb.renders <= 1
    /\ orb.pc \in {"save", "exited"} =>
          /\ orb.renders = 1
          /\ orb.image.size = <<512, 512>>
          /\ orb.image.ops[1].color = RefGradient(GivenMood)[1]
          /\ SubSeq(orb.image.ops[1].geom, 3, 5) = RefGradient(GivenMood)[2]
          /\ \A i \in 1..Len(orb.files) :
                /\ orb.files[i].name = "ic_launcher.png"
                /\ orb.files[i].image.size = <<<<48, 72, 96, 144, 192>>[i], <<48, 72, 96, 144, 192>>[i]>>
                /\ SubSeq(orb.files[i].image.ops, 1, Len(orb.image.ops)) = orb.image.ops
                /\ Len(orb.files[i].image.ops) = Len(orb.image.ops) + 1
                /\ \A j \in 1..Len(orb.files) : orb.files[i].dir = orb.files[j].dir => i = j
    /\ orb.pc = "exited" =>
          /\ orb.fails.at = 0 => (orb.exit = 0 /\ Len(orb.files) = 5)
          /\ orb.fails.at # 0 => orb.exit = 2

\* a run with a mood that has no gradient, which saved its five files and
\* exited with 0
C24_Witness ==
    /\ orb.pc = "exited"
    /\ orb.exit = 0
    /\ orb.argv = <<"sleepy", "energized">>
    /\ Len(orb.files) = 5
    /\ orb.files[5].image.size = <<192, 192>>
    /\ orb.image.ops[1].color = <<176, 224, 230>>
====
